---- MODULE Spec2Model ----
(***************************************************************************)
(* Session registry (SessionManager), turn classification and turn         *)
(* orchestration (RecitationService) and the socket/HTTP handlers          *)
(* (server/index.ts) of the recitation assistant, and the browser client   *)
(* (useAppStore, useSocket, useSpeechRecognition, RecitationInterface).    *)
(*                                                                         *)
(* Time is counted in minutes.  Session ids (uuid v4) are modelled as the  *)
(* naturals 1..MaxSessions, handed out in order and never reused; 0 is an  *)
(* id that no createSession ever returned.                                 *)
(***************************************************************************)
EXTENDS Integers, Sequences, FiniteSets, TLC

VARIABLES
    sessions,   \* SessionManager.sessions of the server: id -> Session
    nextId,     \* the next uuid createSession will hand out
    now,        \* Date.now(), in minutes
    call,       \* the last SessionManager or TTSService call and what it returned
    nextSweep,  \* when the setInterval callback fires next
    events,     \* number of requests and socket events received so far
    turns,      \* the handler invocations suspended at an await
    outbox,     \* what the server has sent, in the order sent
    store,      \* the browser's useAppStore state
    component,  \* RecitationInterface: its state, refs and pending play timeout
    played,     \* the message ids the play timeout has handed to playMessageAudio
    socketRef,  \* the socket.io client of useSocket (socketRef.current)
    wire,       \* what the client has emitted and what the server still owes it
    inputs      \* number of user actions and socket events at the client so far

clientVars == <<store, component, played, socketRef, wire, inputs>>
serverVars == <<nextSweep, events, turns, outbox, clientVars>>
vars == <<sessions, nextId, now, call, nextSweep, events, turns, outbox,
          store, component, played, socketRef, wire, inputs>>

----------------------------------------------------------------------------
(* Bounds of the model *)

MaxSessions == 2

\* Requests and socket events the server receives in one run.
MaxEvents == 3

\* The longest PCM buffer the synthesizer returns, in bytes.
MaxPcmBytes == 3

\* User actions and transport losses at the client in one run.
MaxInputs == 4

\* The instants at which the clock is observed.
StoreInstants == {0, 1, 60, 61}
TimerInstants == {0, 15, 30, 45, 60, 75}

----------------------------------------------------------------------------
(* Values *)

Undefined == "undefined"

\* The ids a caller can present: those handed out so far, and 0.
KnownIds == 0..(nextId - 1)

SocketIds == {"sockA", "sockB"}

\* Transcripts are sequences of characters.
TxShort == <<"a", "b", "c">>
TxWrong == <<"W", "r", "o", "n", "g">>
TxErrore == <<"e", "r", "r", "o", "r", "e">>
TxKhata == <<"kha", "tah", "alef_hamza">>
TxMistake == <<"m", "y", " ", "M", "i", "s", "t", "a", "k", "e", ".", ".", ".">>

\* Names every object literal inherits from Object.prototype: a lookup
\* table[name] finds the inherited member, which is neither undefined nor a
\* string nor an array.
InheritedKeys == {"constructor", "toString", "valueOf", "hasOwnProperty", "__proto__"}

\* What JSON.stringify keeps of such a member: nothing.
Inherited == "inherited"

\* An exception reaching the caller.
Thrown == "thrown"

\* Partial<Session> values a caller passes to updateSession.
UpdateInputs ==
    { [lastRecitation |-> TxShort, recitationHistory |-> <<TxShort>>, socketId |-> "sockA"],
      [recitationHistory |-> <<>>, lastActivity |-> 0],
      [id |-> 0, language |-> "it", surah |-> "Al-Ikhlas"] }

\* The maxAgeMinutes a caller passes to cleanupOldSessions.
SweepAges == {1, 60}

\* The (surah, language) pairs a caller passes to createSession.
StoreCreateInputs == {<<"Al-Fatiha", "ar">>}

Min(S) == CHOOSE x \in S : \A y \in S : x <= y

\* Object.assign(target, source): the fields of source overwrite or extend
\* target's.
ObjectAssign(target, source) ==
    [k \in DOMAIN target \cup DOMAIN source |->
        IF k \in DOMAIN source THEN source[k] ELSE target[k]]

Remove(map, ids) == [i \in DOMAIN map \ ids |-> map[i]]

\* A SessionManager call: the method, the session id it was given (or gave
\* back), the field names of its updates or its socket id, and what it
\* returned.  cleanupOldSessions carries its maxAgeMinutes as id.
Call(op, id, arg, ret) == [op |-> op, id |-> id, arg |-> arg, ret |-> ret]

NoCall == Call("none", 0, {}, Undefined)

----------------------------------------------------------------------------
(* SessionManager *)

\* The object createSession stores.  createdAt is written here and read
\* nowhere, and currentVerse, totalVerses and progress are never written:
\* the four are left out of the record.
NewSession(sessionId, surah, language) ==
    [id |-> sessionId,
     surah |-> surah,
     language |-> language,
     lastActivity |-> now,
     recitationHistory |-> <<>>,
     lastRecitation |-> <<>>,
     socketId |-> Undefined]

\* sessions after createSession(surah, language); the id returned is nextId.
SessionsAfterCreate(surah, language) ==
    (nextId :> NewSession(nextId, surah, language)) @@ sessions

\* getSession without `session.lastActivity = new Date()`.
SessionsAfterGetNoRefresh(sessionId) == sessions

\* sessions after getSession(sessionId): a live session's lastActivity is refreshed.
SessionsAfterGet(sessionId) ==
    IF sessionId \in DOMAIN sessions
    THEN [sessions EXCEPT ![sessionId].lastActivity = now]
    ELSE sessions

\* updateSession with the refresh placed before Object.assign.
SessionsAfterUpdateAssignLast(sessionId, updates) ==
    IF sessionId \notin DOMAIN sessions
    THEN sessions
    ELSE [sessions EXCEPT ![sessionId] =
              ObjectAssign([sessions[sessionId] EXCEPT !.lastActivity = now], updates)]

\* updateSession that stores the updates under an id it does not know.
SessionsAfterUpdateUpsert(sessionId, updates) ==
    IF sessionId \notin DOMAIN sessions
    THEN (sessionId :> ObjectAssign(NewSession(sessionId, Undefined, "en"), updates))
             @@ sessions
    ELSE [sessions EXCEPT ![sessionId] =
              [ObjectAssign(sessions[sessionId], updates) EXCEPT !.lastActivity = now]]

\* sessions after updateSession(sessionId, updates).
SessionsAfterUpdate(sessionId, updates) ==
    IF sessionId \notin DOMAIN sessions
    THEN sessions
    ELSE [sessions EXCEPT ![sessionId] =
              [ObjectAssign(sessions[sessionId], updates) EXCEPT !.lastActivity = now]]

\* cleanupOldSessions with `<=` for `<`.
OldSessionsInclusive(registry, maxAgeMinutes) ==
    LET cutoff == now - maxAgeMinutes
    IN {i \in DOMAIN registry : registry[i].lastActivity <= cutoff}

\* cleanupOldSessions without `* 60 * 1000`: maxAgeMinutes taken as
\* milliseconds.
OldSessionsInMillis(registry, maxAgeMinutes) ==
    LET cutoff == now - (maxAgeMinutes \div 60000)
    IN {i \in DOMAIN registry : registry[i].lastActivity < cutoff}

\* The sessions cleanupOldSessions(maxAgeMinutes) deletes from a registry.
OldSessions(registry, maxAgeMinutes) ==
    LET cutoff == now - maxAgeMinutes
    IN {i \in DOMAIN registry : registry[i].lastActivity < cutoff}

\* A registry after cleanupOldSessions(maxAgeMinutes).
SessionsAfterCleanupOld(registry, maxAgeMinutes) ==
    Remove(registry, OldSessions(registry, maxAgeMinutes))

\* sessions after cleanupSession(socketId): the first session, in insertion
\* order, that carries the socket id is deleted.
SessionsAfterCleanupSocket(socketId) ==
    LET mine == {i \in DOMAIN sessions : sessions[i].socketId = socketId}
    IN IF mine = {} THEN sessions ELSE Remove(sessions, {Min(mine)})

\* getSession(sessionId) and what it returns.
GetCall(sessionId) ==
    Call("getSession", sessionId, {},
         IF sessionId \in DOMAIN sessions THEN "session" ELSE Undefined)

CreateSession(surah, language) ==
    /\ nextId <= MaxSessions
    /\ sessions' = SessionsAfterCreate(surah, language)
    /\ nextId' = nextId + 1
    /\ call' = Call("createSession", nextId, {}, "id")
    /\ UNCHANGED <<now, serverVars>>

GetSession(sessionId) ==
    /\ sessions' = SessionsAfterGet(sessionId)
    /\ call' = GetCall(sessionId)
    /\ UNCHANGED <<nextId, now, serverVars>>

UpdateSession(sessionId, updates) ==
    /\ sessions' = SessionsAfterUpdate(sessionId, updates)
    /\ call' = Call("updateSession", sessionId, DOMAIN updates,
                     IF sessionId \in DOMAIN sessions THEN "true" ELSE "false")
    /\ UNCHANGED <<nextId, now, serverVars>>

DeleteSession(sessionId) ==
    /\ sessions' = Remove(sessions, {sessionId})
    /\ call' = Call("deleteSession", sessionId, {},
                     IF sessionId \in DOMAIN sessions THEN "true" ELSE "false")
    /\ UNCHANGED <<nextId, now, serverVars>>

CleanupSession(socketId) ==
    /\ sessions' = SessionsAfterCleanupSocket(socketId)
    /\ call' = Call("cleanupSession", 0, {socketId}, Undefined)
    /\ UNCHANGED <<nextId, now, serverVars>>

CleanupOldSessions(maxAgeMinutes) ==
    /\ sessions' = SessionsAfterCleanupOld(sessions, maxAgeMinutes)
    /\ call' = Call("cleanupOldSessions", maxAgeMinutes, {}, Undefined)
    /\ UNCHANGED <<nextId, now, serverVars>>

\* The clock moves on to a later instant.
Tick(t) ==
    /\ t > now
    /\ now' = t
    /\ UNCHANGED <<sessions, nextId, call, serverVars>>

----------------------------------------------------------------------------
(* Strings: a string is the sequence of its characters *)

UpperCase == <<"A", "B", "C", "D", "E", "F", "G", "H", "I", "J", "K", "L", "M",
               "N", "O", "P", "Q", "R", "S", "T", "U", "V", "W", "X", "Y", "Z">>
LowerCase == <<"a", "b", "c", "d", "e", "f", "g", "h", "i", "j", "k", "l", "m",
               "n", "o", "p", "q", "r", "s", "t", "u", "v", "w", "x", "y", "z">>

\* The lower-case letter of every upper-case letter
LowerCaseOf ==
    [c \in {UpperCase[i] : i \in DOMAIN UpperCase} |->
        LowerCase[CHOOSE i \in DOMAIN UpperCase : UpperCase[i] = c]]

ToLowerCaseChar(c) ==
    IF c \in DOMAIN LowerCaseOf THEN LowerCaseOf[c] ELSE c

\* String.prototype.toLowerCase
ToLowerCase(text) == [i \in 1..Len(text) |-> ToLowerCaseChar(text[i])]

\* String.prototype.includes
Includes(text, part) ==
    \E i \in 0..(Len(text) - Len(part)) : SubSeq(text, i + 1, i + Len(part)) = part

\* Array.prototype.slice(-n)
SliceLast(seq, n) ==
    IF Len(seq) <= n THEN seq ELSE SubSeq(seq, Len(seq) - n + 1, Len(seq))

----------------------------------------------------------------------------
(* RecitationService: classification *)

\* The Arabic letters are written by their names.
FeedbackKeywordsEn ==
    { <<"m", "i", "s", "t", "a", "k", "e">>,
      <<"c", "o", "r", "r", "e", "c", "t">>,
      <<"w", "r", "o", "n", "g">>,
      <<"f", "e", "e", "d", "b", "a", "c", "k">>,
      <<"h", "o", "w", " ", "d", "i", "d", " ", "i", " ", "d", "o">> }
FeedbackKeywordsAr ==
    { <<"kha", "tah", "alef_hamza">>,
      <<"sad", "hah", "yeh", "hah">>,
      <<"ghain", "lam", "tah">>,
      <<"teh", "qaf", "yeh", "yeh", "meem">> }
FeedbackKeywordsIt ==
    { <<"s", "b", "a", "g", "l", "i", "o">>,
      <<"c", "o", "r", "r", "e", "t", "t", "o">>,
      <<"e", "r", "r", "o", "r", "e">>,
      <<"f", "e", "e", "d", "b", "a", "c", "k">> }

\* feedbackKeywords[language] || feedbackKeywords.en, for a language that
\* is not an inherited name
FeedbackKeywords(language) ==
    CASE language = "en" -> FeedbackKeywordsEn
      [] language = "ar" -> FeedbackKeywordsAr
      [] language = "it" -> FeedbackKeywordsIt
      [] OTHER -> FeedbackKeywordsEn

\* keywords.some is not a function: for an inherited name the lookup gives
\* the inherited member, which is truthy and no array.
KeywordLookupThrows(language) == language \in InheritedKeys

\* isAskingForFeedback where it returns
IsAskingForFeedback(text, language) ==
    /\ ~KeywordLookupThrows(language)
    /\ \E keyword \in FeedbackKeywords(language) :
          Includes(ToLowerCase(text), ToLowerCase(keyword))

AssistanceLength == 10

NeedsAssistance(transcription, session) ==
    Len(transcription) < AssistanceLength \/ Includes(transcription, <<".", ".", ".">>)

\* messages[language] || messages.en
ClarificationMessage(language) ==
    CASE language = "ar" -> "clarification_ar"
      [] language = "it" -> "clarification_it"
      [] language \in InheritedKeys -> Inherited
      [] OTHER -> "clarification_en"

\* greetings[language] || greetings.en
GreetingText(language) ==
    CASE language = "ar" -> "greeting_ar"
      [] language = "it" -> "greeting_it"
      [] language \in InheritedKeys -> Inherited
      [] OTHER -> "greeting_en"

\* The speech-to-text stub: it resolves to null whatever the audio is.
\* An absent value is <<>>, a present value v is <<v>>.
TranscribeAudio(audioData) == <<>>

----------------------------------------------------------------------------
(* RecitationService: prompts and the synchronous part of a turn *)

\* The parts of the session a prompt quotes.
BuildPrompt(recitation, session) ==
    [path |-> "normal",
     recitation |-> <<recitation>>,
     lastRecitation |-> <<>>,
     history |-> SliceLast(session.recitationHistory, 3),
     surah |-> session.surah,
     language |-> session.language]

BuildFeedbackPrompt(session) ==
    [path |-> "feedback",
     recitation |-> <<>>,
     lastRecitation |-> <<session.lastRecitation>>,
     history |-> session.recitationHistory,
     surah |-> session.surah,
     language |-> session.language]

ContinuationPrompt(session) ==
    [path |-> "continuation",
     recitation |-> <<>>,
     lastRecitation |-> <<session.lastRecitation>>,
     history |-> <<>>,
     surah |-> session.surah,
     language |-> session.language]

\* What a handler has done when it stops for the first time: the session as
\* it left it; where it stopped (pc: "generate" and "synthesize" are the
\* awaits on the generator and on the synthesizer, "reply" is a return with
\* no call pending, "throw" an exception); the reply it is preparing; the
\* calls it has made so far, in order (steps); and the text it has handed
\* to ttsService.generateSpeech (spoken, <<>> when it has handed none).
Suspended(session, pc, type, prompt, text, transcription, steps, spoken) ==
    [session |-> session, pc |-> pc, type |-> type, prompt |-> prompt,
     text |-> text, transcription |-> transcription, steps |-> steps,
     spoken |-> spoken]

\* The calls `done` were made before those of s.
After(done, s) == [s EXCEPT !.steps = done \o @]

\* The bookkeeping without the push.
RecordRecitationNoPush(session, text) ==
    [session EXCEPT !.lastRecitation = text]

\* session.lastRecitation = text; session.recitationHistory.push(text)
RecordRecitation(session, text) ==
    [session EXCEPT !.lastRecitation = text,
                    !.recitationHistory = Append(@, text)]

\* await this.generateAudio(text, ...) of a text that is ready when the
\* method is entered: `text.substring` throws inside generateAudio's try
\* when the text is an inherited member, and generateSpeech is not called.
SpeakFixed(session, type, text, transcription) ==
    IF text = Inherited
    THEN Suspended(session, "reply", type, <<>>, text, transcription,
                   <<"generateAudio">>, <<>>)
    ELSE Suspended(session, "synthesize", type, <<>>, text, transcription,
                   <<"generateAudio">>, <<text>>)

\* getGreeting up to the await on generateAudio
GetGreeting(language, session) ==
    SpeakFixed(session, Undefined, GreetingText(language), <<>>)

\* A provideFeedback that records the request as a recitation of its own
\* before it asks the generator.
ProvideFeedbackRecords(session) ==
    LET updated == RecordRecitation(session, "feedback")
    IN Suspended(updated, "generate", "feedback", <<BuildFeedbackPrompt(updated)>>,
                 Undefined, <<>>, <<"generateContent">>, <<>>)

\* provideFeedback up to model.generateContent
ProvideFeedback(session) ==
    Suspended(session, "generate", "feedback", <<BuildFeedbackPrompt(session)>>,
              Undefined, <<>>, <<"generateContent">>, <<>>)

\* provideContinuation up to model.generateContent
ProvideContinuation(session) ==
    Suspended(session, "generate", "continuation", <<ContinuationPrompt(session)>>,
              Undefined, <<>>, <<"generateContent">>, <<>>)

\* processRecitation up to model.generateContent
ProcessRecitation(recitation, session) ==
    Suspended(session, "generate", "acknowledgment",
              <<BuildPrompt(recitation, session)>>, Undefined, <<recitation>>,
              <<"generateContent">>, <<>>)

\* isAskingForFeedback throws: the catch blocks of the method pass it on.
Throws(session, steps) ==
    Suspended(session, "throw", Undefined, <<>>, Undefined, <<>>, steps, <<>>)

\* processText with the assistance check of processAudio placed before the
\* feedback check.
ProcessTextAssistanceFirst(text, session) ==
    LET updated == RecordRecitation(session, text)
    IN IF NeedsAssistance(text, updated)
       THEN After(<<"push", "needsAssistance">>, ProvideContinuation(updated))
       ELSE IF IsAskingForFeedback(text, updated.language)
            THEN After(<<"push", "needsAssistance", "isAskingForFeedback">>,
                       ProvideFeedback(updated))
            ELSE Suspended(updated, "generate", "response",
                           <<BuildPrompt(text, updated)>>, Undefined, <<text>>,
                           <<"push", "needsAssistance", "isAskingForFeedback",
                             "generateContent">>, <<>>)

\* A processText that builds its prompt before it records the transcript.
ProcessTextPromptFirst(text, session) ==
    LET updated == RecordRecitation(session, text)
        done == <<"push", "isAskingForFeedback">>
    IN IF KeywordLookupThrows(updated.language)
       THEN Throws(updated, done)
       ELSE IF IsAskingForFeedback(text, updated.language)
            THEN After(done, Suspended(updated, "generate", "feedback",
                                       <<BuildFeedbackPrompt(session)>>, Undefined,
                                       <<>>, <<"generateContent">>, <<>>))
            ELSE Suspended(updated, "generate", "response",
                           <<BuildPrompt(text, session)>>, Undefined, <<text>>,
                           done \o <<"generateContent">>, <<>>)

\* processText up to its first await
ProcessText(text, session) ==
    LET updated == RecordRecitation(session, text)
        done == <<"push", "isAskingForFeedback">>
    IN IF KeywordLookupThrows(updated.language)
       THEN Throws(updated, done)
       ELSE IF IsAskingForFeedback(text, updated.language)
            THEN After(done, ProvideFeedback(updated))
            ELSE Suspended(updated, "generate", "response",
                           <<BuildPrompt(text, updated)>>, Undefined, <<text>>,
                           done \o <<"generateContent">>, <<>>)

\* processAudio up to its first await on the generator or the synthesizer
ProcessAudio(audioData, session) ==
    LET heard == TranscribeAudio(audioData)
    IN IF heard = <<>> \/ heard[1] = <<>>
       THEN After(<<"transcribeAudio">>,
                  SpeakFixed(session, "clarification",
                             ClarificationMessage(session.language), <<>>))
       ELSE LET transcription == heard[1]
                updated == RecordRecitation(session, transcription)
                done == <<"transcribeAudio", "push", "isAskingForFeedback">>
            IN IF KeywordLookupThrows(updated.language)
               THEN Throws(updated, done)
               ELSE IF IsAskingForFeedback(transcription, updated.language)
               THEN After(done, ProvideFeedback(updated))
               ELSE IF NeedsAssistance(transcription, updated)
                    THEN After(done \o <<"needsAssistance">>, ProvideContinuation(updated))
                    ELSE After(done \o <<"needsAssistance">>,
                               ProcessRecitation(transcription, updated))

\* generateAudio without its try/catch.
GenerateAudioNoCatch(outcome) ==
    CASE outcome = "audio" -> "data:audio"
      [] outcome = "null" -> Undefined
      [] OTHER -> Thrown

\* generateAudio: the data URL of the speech, or undefined when generateSpeech
\* returned null or threw.
GenerateAudio(outcome) ==
    IF outcome = "audio" THEN "data:audio" ELSE Undefined

----------------------------------------------------------------------------
(* TTSService (src/unnamed/part_004): base64 and the WAV header *)

\* A byte is a natural below 256 and a buffer a sequence of bytes.  A base64
\* string is the sequence of the 6-bit values of its characters, with Pad
\* for '='.
Pad == 64

Drop(seq, n) == SubSeq(seq, n + 1, Len(seq))

\* Buffer.prototype.toString('base64')
RECURSIVE Base64Encode(_)
Base64Encode(buffer) ==
    CASE Len(buffer) = 0 -> <<>>
      [] Len(buffer) = 1 ->
            <<buffer[1] \div 4, (buffer[1] % 4) * 16, Pad, Pad>>
      [] Len(buffer) = 2 ->
            <<buffer[1] \div 4, (buffer[1] % 4) * 16 + buffer[2] \div 16,
              (buffer[2] % 16) * 4, Pad>>
      [] OTHER ->
            <<buffer[1] \div 4, (buffer[1] % 4) * 16 + buffer[2] \div 16,
              (buffer[2] % 16) * 4 + buffer[3] \div 64, buffer[3] % 64>>
            \o Base64Encode(Drop(buffer, 3))

\* Buffer.from(string, 'base64'), for a string that toString('base64') gives
RECURSIVE Base64Decode(_)
Base64Decode(string) ==
    IF Len(string) < 4 THEN <<>>
    ELSE LET a == string[1]
             b == string[2]
             c == string[3]
             d == string[4]
         IN CASE c = Pad -> <<a * 4 + b \div 16>>
              [] d = Pad -> <<a * 4 + b \div 16, (b % 16) * 16 + c \div 4>>
              [] OTHER -> <<a * 4 + b \div 16, (b % 16) * 16 + c \div 4, (c % 4) * 64 + d>>
                          \o Base64Decode(Drop(string, 4))

\* The longest string the engine holds (2^29 - 24 characters), hence the
\* longest pcmBase64, and the longest buffer it decodes to.
MaxStringLength == 536870888
LongestPayload == 3 * (MaxStringLength \div 4)

\* The character codes header.write puts for the four chunk names.
Riff == <<82, 73, 70, 70>>
Wave == <<87, 65, 86, 69>>
Fmt == <<102, 109, 116, 32>>
Data == <<100, 97, 116, 97>>

\* writeUInt32LE and writeUInt16LE throw a RangeError for a value outside
\* the width.  (2^32 is written as 65536 * 65536.)
FitsUInt32(value) == value >= 0 /\ value \div 65536 < 65536
FitsUInt16(value) == value >= 0 /\ value < 65536

\* The two bytes of a value with the high byte first.
UInt16BE(value) == <<(value \div 256) % 256, value % 256>>

UInt32LE(value) ==
    <<value % 256, (value \div 256) % 256, (value \div 65536) % 256,
      (value \div 16777216) % 256>>
UInt16LE(value) == <<value % 256, (value \div 256) % 256>>

\* The format convertPCMToWAV writes: 16-bit PCM, 24 kHz, mono.
SampleRate == 24000
NumChannels == 1
BitsPerSample == 16
ByteRate == (SampleRate * NumChannels * BitsPerSample) \div 8
BlockAlign == (NumChannels * BitsPerSample) \div 8

\* A header with the two size fields in each other's place.
WavHeaderSizesSwapped(dataSize) ==
    Riff \o UInt32LE(dataSize) \o Wave
    \o Fmt \o UInt32LE(16) \o UInt16LE(1) \o UInt16LE(NumChannels)
    \o UInt32LE(SampleRate) \o UInt32LE(ByteRate)
    \o UInt16LE(BlockAlign) \o UInt16LE(BitsPerSample)
    \o Data \o UInt32LE(dataSize + 36)

\* The 44 bytes of the header, in the order of the writes.
WavHeader(dataSize) ==
    Riff \o UInt32LE(dataSize + 36) \o Wave
    \o Fmt \o UInt32LE(16) \o UInt16LE(1) \o UInt16LE(NumChannels)
    \o UInt32LE(SampleRate) \o UInt32LE(ByteRate)
    \o UInt16LE(BlockAlign) \o UInt16LE(BitsPerSample)
    \o Data \o UInt32LE(dataSize)

\* An encoder that takes whole 16-bit samples only.
HeaderWritableWholeSamples(dataSize) == dataSize % BlockAlign = 0

\* Whether every write of the header is within its width.
HeaderWritable(dataSize) ==
    /\ FitsUInt32(dataSize + 36) /\ FitsUInt32(dataSize)
    /\ FitsUInt32(SampleRate) /\ FitsUInt32(ByteRate)
    /\ FitsUInt16(NumChannels) /\ FitsUInt16(BlockAlign) /\ FitsUInt16(BitsPerSample)

\* What a call returns: ok with a value, or not ok when it threw.
Returned(value) == [ok |-> TRUE, value |-> value]
Threw == [ok |-> FALSE, value |-> <<>>]

\* convertPCMToWAV(pcmBase64): the base64 of header and PCM bytes; the error
\* of a write is thrown on.
ConvertPCMToWAV(pcmBase64) ==
    LET pcmBuffer == Base64Decode(pcmBase64)
        dataSize == Len(pcmBuffer)
    IN IF HeaderWritable(dataSize)
       THEN Returned(Base64Encode(WavHeader(dataSize) \o pcmBuffer))
       ELSE Threw

----------------------------------------------------------------------------
(* TTSService (src/unnamed/part_004): generateSpeech *)

\* A MIME type is the sequence of the pieces of its string; includes() is
\* taken piece by piece.
MimeL16Pcm == <<"audio/", "L16", ";", "codec=", "pcm", ";", "rate=24000">>
MimeL16 == <<"audio/", "L16", ";", "rate=24000">>
MimeWav == <<"audio/", "wav">>
MimeMpeg == <<"audio/", "mpeg">>

\* `data:${mimeType};base64,${data}`
DataUrl(mimeType, base64) == [mimeType |-> mimeType, base64 |-> base64]

\* What the POST to the synthesis endpoint gives: it rejects ("error"), or
\* resolves with the inlineData of the first part of the first candidate,
\* of which data and mimeType may be missing (<<>>).
ApiReply(status, data, mimeType) ==
    [status |-> status, data |-> data, mimeType |-> mimeType]

\* mimeType.includes('audio/L16') || mimeType.includes('codec=pcm')
IsL16Pcm(mimeType) ==
    Includes(mimeType, <<"audio/", "L16">>) \/ Includes(mimeType, <<"codec=", "pcm">>)

\* A generateSpeech that converts for Arabic sessions and for no others.
GenerateSpeechByLanguage(language, apiKey, reply) ==
    IF ~apiKey \/ reply.status = "error" THEN <<>>
    ELSE IF reply.data = <<>> \/ reply.data[1] = <<>> \/ reply.mimeType = <<>> THEN <<>>
    ELSE IF language = "ar"
         THEN LET wavData == ConvertPCMToWAV(reply.data[1])
              IN IF wavData.ok THEN <<DataUrl(MimeWav, wavData.value)>> ELSE <<>>
         ELSE <<DataUrl(reply.mimeType[1], reply.data[1])>>

\* generateSpeech(text, language): the data URL it resolves to, <<>> for
\* null.  The language chooses the voice of the request and nothing else;
\* the text goes into the request.
GenerateSpeech(language, apiKey, reply) ==
    IF ~apiKey \/ reply.status = "error" THEN <<>>
    ELSE IF reply.data = <<>> \/ reply.data[1] = <<>> \/ reply.mimeType = <<>> THEN <<>>
    ELSE IF IsL16Pcm(reply.mimeType[1])
         THEN LET wavData == ConvertPCMToWAV(reply.data[1])
              IN IF wavData.ok THEN <<DataUrl(MimeWav, wavData.value)>> ELSE <<>>
         ELSE <<DataUrl(reply.mimeType[1], reply.data[1])>>

----------------------------------------------------------------------------
(* server/index.ts *)

AutoCleanupInterval == 15
AutoCleanupMaxAge == 60

\* The interval callback given the server's sessionManager.
IntervalSharesRegistry == TRUE

\* Whether the manager the interval callback sweeps is the one the handlers
\* use.  The callback builds its own with `new SessionManager()`.
IntervalSweepsServerRegistry == FALSE

\* A message sent: the event it answers (n), the socket it goes to ("http"
\* for the response of the POST), its event name and its payload; sessionId
\* is the session the handler was called with.
Message(n, to, event, type, text, audio, transcription, sessionId) ==
    [n |-> n, to |-> to, event |-> event, type |-> type, text |-> text,
     audio |-> audio, transcription |-> transcription, sessionId |-> sessionId]

ErrorMessage(n, to, text, sessionId) ==
    Message(n, to, "error", Undefined, text, Undefined, <<>>, sessionId)

\* A suspended handler: the event it serves (n counts the events), its
\* socket, the session it holds, the transcript it was given (input, <<>>
\* when it has none), and where it is suspended with which reply in hand.
Turn(n, socket, sessionId, handler, input, s) ==
    [n |-> n, socket |-> socket, sessionId |-> sessionId, handler |-> handler,
     input |-> input, pc |-> s.pc, type |-> s.type, prompt |-> s.prompt,
     text |-> s.text, transcription |-> s.transcription,
     language |-> s.session.language, steps |-> s.steps, spoken |-> s.spoken]

\* The message a handler's catch block sends.
FailureText(handler) ==
    CASE handler = "text-input" -> "Failed to process text"
      [] handler = "audio-stream" -> "Failed to process audio"
      [] handler = "request-feedback" -> "Failed to provide feedback"
      [] OTHER -> "Failed to start session"

\* The event a handler sends its reply with.
ReplyEvent(handler) ==
    CASE handler = "request-feedback" -> "feedback-response"
      [] handler = "session-start" -> "session-start-200"
      [] OTHER -> "ai-response"

\* What JSON.stringify (res.json, socket.emit) keeps of a value.
Json(value) == IF value = Inherited THEN Undefined ELSE value

\* A reply that is sent to the socket the session has recorded, when it has
\* recorded one (io.to(session.socketId).emit).
ReplyToTransport(turn, audio) ==
    Message(turn.n,
            IF turn.sessionId \in DOMAIN sessions
                   /\ sessions[turn.sessionId].socketId # Undefined
                   /\ turn.handler # "session-start"
            THEN sessions[turn.sessionId].socketId ELSE turn.socket,
            ReplyEvent(turn.handler), turn.type,
            Json(turn.text), audio, turn.transcription, turn.sessionId)

\* The reply a handler sends once its method has returned.
Reply(turn, audio) ==
    Message(turn.n, turn.socket, ReplyEvent(turn.handler), turn.type,
            Json(turn.text), audio, turn.transcription, turn.sessionId)

\* A handler has run up to where its method stopped first: it stays
\* suspended at an await on the generator or the synthesizer, or it has
\* sent its reply or the message of its catch block already.
Started(turn) ==
    CASE turn.pc = "throw" ->
            /\ outbox' = Append(outbox, ErrorMessage(turn.n, turn.socket,
                                    FailureText(turn.handler), turn.sessionId))
            /\ turns' = turns
      [] turn.pc = "reply" ->
            /\ outbox' = Append(outbox, Reply(turn, Undefined))
            /\ turns' = turns
      [] OTHER ->
            /\ turns' = turns \cup {turn}
            /\ outbox' = outbox

\* POST /api/session/start up to the await in getGreeting
StartSession(surah, requested) ==
    LET language == IF requested = Undefined THEN "en" ELSE requested
        greeting == GetGreeting(language, NewSession(nextId, surah, language))
    IN /\ events < MaxEvents
       /\ nextId <= MaxSessions
       /\ events' = events + 1
       /\ sessions' = SessionsAfterCreate(surah, language)
       /\ nextId' = nextId + 1
       /\ call' = Call("createSession", nextId, {}, "id")
       /\ Started(Turn(events + 1, "http", nextId, "session-start", <<>>, greeting))
       /\ UNCHANGED <<now, nextSweep, clientVars>>

\* A join-session that keeps the socket id of the first join.
JoinSessionKeepsFirst(socket, sessionId) ==
    /\ events < MaxEvents
    /\ events' = events + 1
    /\ call' = GetCall(sessionId)
    /\ IF sessionId \in DOMAIN sessions
       THEN /\ sessions' = [SessionsAfterGet(sessionId) EXCEPT ![sessionId].socketId =
                                IF @ = Undefined THEN socket ELSE @]
            /\ outbox' = Append(outbox, Message(events + 1, socket, "session-joined",
                                    Undefined, Undefined, Undefined, <<>>, sessionId))
       ELSE /\ sessions' = sessions
            /\ outbox' = Append(outbox, ErrorMessage(events + 1, socket, "Session not found", sessionId))
    /\ UNCHANGED <<nextId, now, nextSweep, clientVars, turns>>

\* socket.on('join-session')
JoinSession(socket, sessionId) ==
    /\ events < MaxEvents
    /\ events' = events + 1
    /\ call' = GetCall(sessionId)
    /\ IF sessionId \in DOMAIN sessions
       THEN /\ sessions' = [SessionsAfterGet(sessionId) EXCEPT ![sessionId].socketId = socket]
            /\ outbox' = Append(outbox, Message(events + 1, socket, "session-joined",
                                    Undefined, Undefined, Undefined, <<>>, sessionId))
       ELSE /\ sessions' = sessions
            /\ outbox' = Append(outbox, ErrorMessage(events + 1, socket, "Session not found", sessionId))
    /\ UNCHANGED <<nextId, now, nextSweep, clientVars, turns>>

\* io.on('connection'): the handlers of the socket are registered
Connection(socket) ==
    /\ events < MaxEvents
    /\ events' = events + 1
    /\ UNCHANGED <<sessions, nextId, now, call, nextSweep, clientVars, turns, outbox>>

\* A 'disconnect' handler that calls cleanupSession(socket.id).
SessionsAfterDisconnectCleanup(socket) == SessionsAfterCleanupSocket(socket)

\* The registry after the 'disconnect' handler, which logs and calls nothing.
SessionsAfterDisconnect(socket) == sessions

\* socket.on('disconnect')
Disconnect(socket) ==
    /\ events < MaxEvents
    /\ events' = events + 1
    /\ sessions' = SessionsAfterDisconnect(socket)
    /\ UNCHANGED <<nextId, now, call, nextSweep, clientVars, turns, outbox>>

\* The session a handler holds after its getSession found it.
Found(sessionId) == SessionsAfterGet(sessionId)[sessionId]

\* A handler on sessions that were all created with one and the same
\* history array: what it pushes shows in every session.
BeginTurnSharedHistory(socket, sessionId, handler, input, s) ==
    /\ events < MaxEvents
    /\ events' = events + 1
    /\ call' = GetCall(sessionId)
    /\ IF sessionId \in DOMAIN sessions
       THEN /\ sessions' = [j \in DOMAIN sessions |->
                                IF j = sessionId THEN s.session
                                ELSE [sessions[j] EXCEPT !.recitationHistory =
                                          s.session.recitationHistory]]
            /\ Started(Turn(events + 1, socket, sessionId, handler, input, s))
       ELSE /\ outbox' = Append(outbox, ErrorMessage(events + 1, socket, "Session not found", sessionId))
            /\ UNCHANGED <<sessions, turns>>
    /\ UNCHANGED <<nextId, now, nextSweep, clientVars>>

\* A handler that returns without a word when it does not find the session.
BeginTurnSilent(socket, sessionId, handler, input, s) ==
    /\ events < MaxEvents
    /\ events' = events + 1
    /\ call' = GetCall(sessionId)
    /\ IF sessionId \in DOMAIN sessions
       THEN /\ sessions' = [sessions EXCEPT ![sessionId] = s.session]
            /\ Started(Turn(events + 1, socket, sessionId, handler, input, s))
       ELSE UNCHANGED <<sessions, turns, outbox>>
    /\ UNCHANGED <<nextId, now, nextSweep, clientVars>>

\* A handler that looks the session up and, when it is there, runs on it up
\* to its first await, where it is suspended as `s`.
BeginTurn(socket, sessionId, handler, input, s) ==
    /\ events < MaxEvents
    /\ events' = events + 1
    /\ call' = GetCall(sessionId)
    /\ IF sessionId \in DOMAIN sessions
       THEN /\ sessions' = [sessions EXCEPT ![sessionId] = s.session]
            /\ Started(Turn(events + 1, socket, sessionId, handler, input, s))
       ELSE /\ outbox' = Append(outbox, ErrorMessage(events + 1, socket, "Session not found", sessionId))
            /\ UNCHANGED <<sessions, turns>>
    /\ UNCHANGED <<nextId, now, nextSweep, clientVars>>

\* socket.on('text-input') up to the first await of processText
TextInput(socket, sessionId, text) ==
    BeginTurn(socket, sessionId, "text-input", <<text>>,
              ProcessText(text, Found(sessionId)))

\* socket.on('audio-stream') up to the first await of processAudio after the
\* transcription
AudioStream(socket, sessionId, audioData) ==
    BeginTurn(socket, sessionId, "audio-stream", TranscribeAudio(audioData),
              ProcessAudio(audioData, Found(sessionId)))

\* socket.on('request-feedback') up to the await in provideFeedback
RequestFeedback(socket, sessionId) ==
    BeginTurn(socket, sessionId, "request-feedback", <<>>,
              ProvideFeedback(Found(sessionId)))

\* A handler that asks the generator a second time once it has answered.
AfterGenerateAgain(turn, text) ==
    [turn EXCEPT !.text = text, !.steps = Append(@, "generateContent")]

\* A handler that has generateSpeech speak a fixed message and not the
\* text generateContent gave.
AfterGenerateSpeaksFixed(turn, text) ==
    [turn EXCEPT !.pc = "synthesize", !.text = text,
                 !.steps = Append(@, "generateAudio"),
                 !.spoken = <<ClarificationMessage(turn.language)>>]

\* The turn once generateContent has given its text: it is handed to
\* generateAudio, which starts generateSpeech with it.
AfterGenerate(turn, text) ==
    [turn EXCEPT !.pc = "synthesize", !.text = text,
                 !.steps = Append(@, "generateAudio"), !.spoken = <<text>>]

\* A handler that took a copy of the session when it started and stores its
\* copy's last transcript when the generator has answered.
GenerateReturnWritesBack(turn, text) ==
    /\ turn \in turns
    /\ turn.pc = "generate"
    /\ turns' = (turns \ {turn}) \cup {AfterGenerate(turn, text)}
    /\ sessions' = IF turn.input # <<>> /\ turn.sessionId \in DOMAIN sessions
                   THEN [sessions EXCEPT ![turn.sessionId].lastRecitation = turn.input[1]]
                   ELSE sessions
    /\ UNCHANGED <<nextId, now, call, nextSweep, clientVars, events, outbox>>

\* model.generateContent resolves and response.text() gives the text; the
\* handler goes on to generateAudio.
GenerateReturn(turn, text) ==
    /\ turn \in turns
    /\ turn.pc = "generate"
    /\ turns' = (turns \ {turn}) \cup {AfterGenerate(turn, text)}
    /\ UNCHANGED <<sessions, nextId, now, call, nextSweep, clientVars, events, outbox>>

\* A handler that answers with a text of its own when the generator fails.
GenerateFailFallsBack(turn) ==
    /\ turn \in turns
    /\ turn.pc = "generate"
    /\ turns' = (turns \ {turn}) \cup {AfterGenerate(turn, "fallback")}
    /\ UNCHANGED <<sessions, nextId, now, call, nextSweep, clientVars, events, outbox>>

\* model.generateContent rejects (or response.text() throws): the handler's
\* catch block reports the failure.
GenerateFail(turn) ==
    /\ turn \in turns
    /\ turn.pc = "generate"
    /\ turns' = turns \ {turn}
    /\ outbox' = Append(outbox, ErrorMessage(turn.n, turn.socket, FailureText(turn.handler), turn.sessionId))
    /\ UNCHANGED <<sessions, nextId, now, call, nextSweep, clientVars, events>>

\* generateAudio settles; the handler sends its reply.  Were generateAudio
\* to throw, getGreeting would answer without audio and the socket handlers
\* with the message of their catch block.
SynthesizeDone(turn, outcome) ==
    LET audio == GenerateAudio(outcome)
    IN /\ turn \in turns
       /\ turn.pc = "synthesize"
       /\ turns' = turns \ {turn}
       /\ outbox' = Append(outbox,
               IF audio # Thrown THEN Reply(turn, audio)
               ELSE IF turn.handler = "session-start" THEN Reply(turn, Undefined)
               ELSE ErrorMessage(turn.n, turn.socket, FailureText(turn.handler),
                                 turn.sessionId))
       /\ UNCHANGED <<sessions, nextId, now, call, nextSweep, clientVars, events>>

\* The setInterval callback: cleanupOldSessions(60) on a SessionManager of its own.
AutoCleanup ==
    /\ now = nextSweep
    /\ nextSweep' = nextSweep + AutoCleanupInterval
    /\ sessions' = IF IntervalSweepsServerRegistry
                   THEN SessionsAfterCleanupOld(sessions, AutoCleanupMaxAge)
                   ELSE sessions
    /\ UNCHANGED <<nextId, now, call, events, turns, outbox, clientVars>>

\* The clock of the server moves on, no further than the next firing of the
\* interval.
ServerTick(t) ==
    /\ t <= nextSweep
    /\ Tick(t)

----------------------------------------------------------------------------
(* The browser: useAppStore (src/unnamed/part_001), useSocket, the          *)
(* recognition handlers of useSpeechRecognition (src/unnamed/part_000) and  *)
(* RecitationInterface with its auto-play effect (src/unnamed/part_002).    *)
(* Message ids are made from Date.now() and are taken to be distinct: the   *)
(* id of a message is its position in the chat.  null is <<>> for the       *)
(* session id and 0 for a message id, a timeout and a transport.            *)

backendVars == <<sessions, nextId, now, call, nextSweep, events, turns, outbox>>

NoSession == <<>>

\* The initial state of create<AppState>.
InitStore ==
    [sessionId |-> NoSession, messages |-> <<>>, recitationHistory |-> <<>>,
     isListening |-> FALSE, isProcessing |-> FALSE, isConnected |-> FALSE,
     error |-> Undefined]

\* addMessage: the chat with one more message; `prefix` is the prefix of
\* its id and `audio` whether it carries audio.
AddMessage(state, prefix, type, audio) ==
    [state EXCEPT !.messages =
        Append(@, [id |-> Len(@) + 1, prefix |-> prefix, type |-> type, audio |-> audio])]

\* RecitationInterface when it is mounted: the selector is shown, nothing
\* was skipped or played, no timeout is pending, no effect is due.
InitComponent ==
    [showSurahSelector |-> TRUE, hasSkippedFirstAI |-> FALSE,
     lastPlayedMessageId |-> 0, playTimeout |-> 0, effectDue |-> FALSE]

\* The socket the effect of useSocket makes for a session id: not yet
\* connected, nothing buffered.
NewSocket(sessionId) ==
    [sessionId |-> sessionId, connected |-> FALSE, id |-> 0, sendBuffer |-> <<>>]

\* The events the server answers with ai-response, feedback-response or error.
TurnEvents == {"text-input", "request-feedback"}

\* socket.emit: the socket after it; a socket that is not connected buffers.
SocketAfterEmit(s, event) ==
    IF s.connected THEN s ELSE [s EXCEPT !.sendBuffer = Append(@, event)]

\* The packets `sent` have reached the server over transport `conn`: it
\* owes an answer for each turn event among them.
WireAfterSend(w, sent, conn) ==
    [w EXCEPT
        !.emitted = @ \o [k \in 1..Len(sent) |-> [event |-> sent[k], conn |-> conn]],
        !.owed = @ \cup {[n |-> Len(w.emitted) + k, event |-> sent[k], conn |-> conn] :
                            k \in {j \in 1..Len(sent) : sent[j] \in TurnEvents}}]

\* socket.emit: what has reached the server after it.
WireAfterEmit(s, w, event) ==
    IF s.connected THEN WireAfterSend(w, <<event>>, s.id) ELSE w

\* A state change renders the component again; playMessageAudio is a new
\* function in every render, so the auto-play effect runs after every one.
Rendered(c) == [c EXCEPT !.effectDue = TRUE]

\* The main view, with the microphone and feedback buttons, is shown.
MainView == ~component.showSurahSelector /\ store.sessionId # NoSession

\* The handlers run once the effects of the last render have run.
Settled == ~component.effectDue

\* The inputs that end handleStartSession: the POST succeeded, with or
\* without audio for the greeting, or failed.
StartOutcomes == {"audio", "text", "failed"}

\* handleStartSession from the resolution of startSession on (the
\* join-session of startSession included).
HandleStartSession(outcome) ==
    /\ Settled
    /\ ~MainView
    /\ inputs < MaxInputs
    /\ inputs' = inputs + 1
    /\ IF outcome = "failed"
       THEN /\ store' = [store EXCEPT !.error = "Failed to start session"]
            /\ component' = Rendered(component)
            /\ UNCHANGED <<socketRef, wire>>
       ELSE /\ socketRef' = SocketAfterEmit(socketRef, "join-session")
            /\ wire' = [WireAfterEmit(socketRef, wire, "join-session")
                            EXCEPT !.sessions = @ + 1]
            /\ store' = AddMessage([store EXCEPT !.sessionId = <<wire.sessions + 1>>,
                                                 !.error = Undefined],
                                   "greeting", "ai", outcome = "audio")
            /\ component' = [Rendered(component) EXCEPT !.showSurahSelector = FALSE,
                                                        !.hasSkippedFirstAI = TRUE]
    /\ UNCHANGED <<played, backendVars>>

\* handleNewSession
HandleNewSession ==
    /\ Settled
    /\ MainView
    /\ inputs < MaxInputs
    /\ inputs' = inputs + 1
    /\ store' = [store EXCEPT !.sessionId = NoSession]
    /\ component' = [Rendered(component) EXCEPT !.showSurahSelector = TRUE,
                                                !.hasSkippedFirstAI = FALSE,
                                                !.lastPlayedMessageId = 0]
    /\ UNCHANGED <<played, socketRef, wire, backendVars>>

\* handleSurahSelect: a state change that touches neither the store nor the refs
HandleSurahSelect ==
    /\ Settled
    /\ ~MainView
    /\ inputs < MaxInputs
    /\ inputs' = inputs + 1
    /\ component' = Rendered(component)
    /\ UNCHANGED <<store, played, socketRef, wire, backendVars>>

\* handleMicrophoneToggle on the enabled button: recognition starts
\* (onstart) or is stopped (onend).
HandleMicrophoneToggle ==
    /\ Settled
    /\ MainView
    /\ ~store.isProcessing
    /\ inputs < MaxInputs
    /\ inputs' = inputs + 1
    /\ store' = [store EXCEPT !.isListening = ~@,
                              !.error = IF store.isListening THEN @ ELSE Undefined]
    /\ component' = Rendered(component)
    /\ UNCHANGED <<played, socketRef, wire, backendVars>>

\* sendTextInput of useSocket.ts, which has the one parameter `text`: the
\* store after it.
StoreAfterSendTextInput(state, s) ==
    IF s.connected /\ state.sessionId # NoSession
    THEN AddMessage([state EXCEPT !.isProcessing = TRUE], "user", "user", FALSE)
    ELSE [state EXCEPT !.error = "Not connected to session. Please start a new session."]

\* sendTextInput: what has reached the server after it.
WireAfterSendTextInput(state, s, w) ==
    IF s.connected /\ state.sessionId # NoSession
    THEN WireAfterEmit(s, w, "text-input")
    ELSE w

\* recognition.onresult with a final transcript that is not blank; with
\* continuous = false the recognition then ends (onend).
OnResult(transcript) ==
    /\ Settled
    /\ store.isListening
    /\ inputs < MaxInputs
    /\ inputs' = inputs + 1
    /\ LET added == AddMessage(store, "transcript", "user", FALSE)
           recorded == [added EXCEPT !.recitationHistory = Append(@, transcript)]
           sent == StoreAfterSendTextInput(recorded, socketRef)
       IN store' = [sent EXCEPT !.isListening = FALSE]
    /\ wire' = [WireAfterSendTextInput(store, socketRef, wire)
                    EXCEPT !.heard = @ + 1]
    /\ component' = Rendered(component)
    /\ UNCHANGED <<played, socketRef, backendVars>>

\* handleRequestFeedback on the enabled button: requestFeedback of useSocket
HandleRequestFeedback ==
    /\ Settled
    /\ MainView
    /\ ~store.isProcessing
    /\ inputs < MaxInputs
    /\ inputs' = inputs + 1
    /\ store' = [store EXCEPT !.isProcessing = TRUE]
    /\ socketRef' = SocketAfterEmit(socketRef, "request-feedback")
    /\ wire' = WireAfterEmit(socketRef, wire, "request-feedback")
    /\ component' = Rendered(component)
    /\ UNCHANGED <<played, backendVars>>

\* socket.on('connect'): the transport is up, the buffered packets are
\* sent, and the handler joins the session the socket was made for.
OnConnect ==
    /\ Settled
    /\ ~socketRef.connected
    /\ LET conn == wire.transports + 1
           sent == socketRef.sendBuffer \o
                       (IF socketRef.sessionId # NoSession
                        THEN <<"join-session">> ELSE <<>>)
       IN /\ socketRef' = [socketRef EXCEPT !.connected = TRUE, !.id = conn,
                                            !.sendBuffer = <<>>]
          /\ wire' = [WireAfterSend(wire, sent, conn) EXCEPT !.transports = conn]
    /\ store' = [store EXCEPT !.isConnected = TRUE, !.error = Undefined]
    /\ component' = Rendered(component)
    /\ UNCHANGED <<played, inputs, backendVars>>

\* socket.on('disconnect'): the transport is lost; socket.io connects again
\* by itself.
OnDisconnect ==
    /\ Settled
    /\ socketRef.connected
    /\ inputs < MaxInputs
    /\ inputs' = inputs + 1
    /\ socketRef' = [socketRef EXCEPT !.connected = FALSE, !.id = 0]
    /\ store' = [store EXCEPT !.isConnected = FALSE]
    /\ component' = Rendered(component)
    /\ UNCHANGED <<played, wire, backendVars>>

\* What the server answers a turn with.
AnswerKinds == {"audio", "text", "error"}

\* socket.on('ai-response'), socket.on('feedback-response') and
\* socket.on('error'): the store after the handler.
StoreAfterAnswer(state, event, answer) ==
    IF answer = "error"
    THEN [state EXCEPT !.isProcessing = FALSE, !.error = "An error occurred"]
    ELSE AddMessage([state EXCEPT !.isProcessing = FALSE],
                    IF event = "request-feedback" THEN "feedback" ELSE "ai",
                    "ai", answer = "audio")

\* The server emits its answer to a turn on the socket the turn came from.
\* The handler of the client runs when that transport is still the one of
\* its socket; the packet is dropped when it is not.
ServerAnswers(turn, answer) ==
    /\ Settled
    /\ turn \in wire.owed
    /\ wire' = [wire EXCEPT !.owed = @ \ {turn}]
    /\ IF socketRef.connected /\ socketRef.id = turn.conn
       THEN /\ store' = StoreAfterAnswer(store, turn.event, answer)
            /\ component' = Rendered(component)
       ELSE UNCHANGED <<store, component>>
    /\ UNCHANGED <<played, socketRef, inputs, backendVars>>

\* The auto-play effect: the cleanup of the last run (clearTimeout), then
\* the body on the last message of the chat.
AutoPlayEffect(c, messages) ==
    LET cleared == [c EXCEPT !.playTimeout = 0]
        last == messages[Len(messages)]
    IN IF messages = <<>> THEN cleared
       ELSE IF ~(last.type = "ai" /\ last.audio) THEN cleared
       ELSE IF ~c.hasSkippedFirstAI THEN [cleared EXCEPT !.hasSkippedFirstAI = TRUE]
       ELSE IF c.lastPlayedMessageId = last.id THEN cleared
       ELSE [cleared EXCEPT !.lastPlayedMessageId = last.id, !.playTimeout = last.id]

\* The effects of a render: the effect of useSocket, which runs again when
\* the session id has changed (socket.disconnect() in its cleanup fires the
\* 'disconnect' handler of a connected socket, then a new socket is made),
\* and the auto-play effect.  A store change in the cleanup renders again.
Effects ==
    LET remade == socketRef.sessionId # store.sessionId
        closed == remade /\ socketRef.connected
    IN /\ component.effectDue
       /\ socketRef' = IF remade THEN NewSocket(store.sessionId) ELSE socketRef
       /\ store' = IF closed THEN [store EXCEPT !.isConnected = FALSE] ELSE store
       /\ component' = [AutoPlayEffect(component, store.messages)
                            EXCEPT !.effectDue = closed]
       /\ UNCHANGED <<played, wire, inputs, backendVars>>

\* The timeout of the auto-play effect fires 300 ms after the effect when
\* no render came in between: playMessageAudio, whose setCurrentAudio
\* renders again.
PlayTimeout ==
    /\ Settled
    /\ component.playTimeout # 0
    /\ played' = Append(played, component.playTimeout)
    /\ component' = [Rendered(component) EXCEPT !.playTimeout = 0]
    /\ UNCHANGED <<store, socketRef, wire, inputs, backendVars>>

----------------------------------------------------------------------------

Init ==
    /\ sessions = <<>>
    /\ nextId = 1
    /\ now = 0
    /\ call = NoCall
    /\ nextSweep = AutoCleanupInterval
    /\ events = 0
    /\ turns = {}
    /\ outbox = <<>>
    /\ store = InitStore
    /\ component = InitComponent
    /\ played = <<>>
    /\ socketRef = NewSocket(NoSession)
    /\ wire = [emitted |-> <<>>, owed |-> {}, transports |-> 0, sessions |-> 0,
               heard |-> 0]
    /\ inputs = 0

\* The SessionManager class under an arbitrary caller.
NextStore ==
    \/ \E c \in StoreCreateInputs : CreateSession(c[1], c[2])
    \/ \E i \in KnownIds : GetSession(i)
    \/ \E i \in KnownIds, u \in UpdateInputs : UpdateSession(i, u)
    \/ \E i \in KnownIds : DeleteSession(i)
    \/ \E k \in SocketIds : CleanupSession(k)
    \/ \E m \in SweepAges : CleanupOldSessions(m)
    \/ \E t \in StoreInstants : Tick(t)

SpecStore == Init /\ [][NextStore]_vars

\* What the clients send to the running server.
StartInputs == {<<Undefined, Undefined>>}
Texts == {TxShort, TxWrong}
AudioInputs == {"pcm"}
GeneratedTexts == {"reply"}
SynthesisOutcomes == {"audio", "null", "throw"}

\* The requests and socket events the server receives.
Requests(starts, sockets, texts) ==
    \/ \E c \in starts : StartSession(c[1], c[2])
    \/ \E k \in sockets, i \in KnownIds : JoinSession(k, i)
    \/ \E k \in sockets, i \in KnownIds, x \in texts : TextInput(k, i, x)
    \/ \E k \in sockets, i \in KnownIds, a \in AudioInputs : AudioStream(k, i, a)
    \/ \E k \in sockets, i \in KnownIds : RequestFeedback(k, i)

\* The external calls of the suspended handlers complete.
Completions ==
    \/ \E turn \in turns, x \in GeneratedTexts : GenerateReturn(turn, x)
    \/ \E turn \in turns : GenerateFail(turn)
    \/ \E turn \in turns, o \in SynthesisOutcomes : SynthesizeDone(turn, o)

\* The running server within one minute.
Next ==
    \/ Requests(StartInputs, SocketIds, Texts)
    \/ Completions

Spec == Init /\ [][Next]_vars

\* The running server over the hours, with its interval.
NextTimer ==
    \/ StartSession(Undefined, Undefined)
    \/ \E i \in KnownIds : JoinSession("sockA", i)
    \/ \E i \in KnownIds : TextInput("sockA", i, TxShort)
    \/ Completions
    \/ AutoCleanup
    \/ \E t \in TimerInstants : ServerTick(t)

SpecTimer == Init /\ [][NextTimer]_vars

\* The languages a client asks for in POST /api/session/start: none, the
\* three with tables, one without, and an inherited name.
RequestedLanguages == {Undefined, "ar", "it", "fr", "constructor"}

\* The texts the clients type or speak in the languages.
LanguageTexts == {TxErrore, TxKhata, TxMistake}

\* The running server with clients of several languages.
NextLanguages ==
    \/ \E l \in RequestedLanguages : StartSession(Undefined, l)
    \/ \E i \in KnownIds, x \in LanguageTexts : TextInput("sockA", i, x)
    \/ Completions

SpecLanguages == Init /\ [][NextLanguages]_vars

\* The external calls of the suspended handlers succeed.
Successes ==
    \/ \E turn \in turns, x \in GeneratedTexts : GenerateReturn(turn, x)
    \/ \E turn \in turns : SynthesizeDone(turn, "audio")

\* The instant at which the other users of the registry look at the clock.
RemovalInstants == {61}

\* The running server while sessions are removed from its registry through
\* the public methods of SessionManager: deleted, or swept once they are
\* old (index.ts itself calls neither on this registry).
NextRemoved ==
    \/ StartSession(Undefined, Undefined)
    \/ \E i \in KnownIds : TextInput("sockA", i, TxShort)
    \/ \E i \in KnownIds, a \in AudioInputs : AudioStream("sockA", i, a)
    \/ \E i \in KnownIds : RequestFeedback("sockA", i)
    \/ Successes
    \/ \E i \in KnownIds : DeleteSession(i)
    \/ CleanupOldSessions(AutoCleanupMaxAge)
    \/ \E t \in RemovalInstants : Tick(t)

SpecRemoved == Init /\ [][NextRemoved]_vars

\* The updates of the other users of the registry.
SharedUpdates == {[lastRecitation |-> TxShort, recitationHistory |-> <<TxShort>>,
                   socketId |-> "sockA"]}

\* The running server while other code updates and deletes sessions of its
\* registry through the public methods of SessionManager.
NextShared ==
    \/ StartSession(Undefined, Undefined)
    \/ \E i \in KnownIds : JoinSession("sockA", i)
    \/ \E i \in KnownIds : TextInput("sockA", i, TxShort)
    \/ \E i \in KnownIds : RequestFeedback("sockA", i)
    \/ Successes
    \/ \E i \in KnownIds : DeleteSession(i)
    \/ \E i \in KnownIds, u \in SharedUpdates : UpdateSession(i, u)

SpecShared == Init /\ [][NextShared]_vars

\* The instant the clock of the server moves on to.
ConnectionInstants == {1}

\* The running server with clients that connect, join, leave and come back.
NextConnections ==
    \/ StartSession(Undefined, Undefined)
    \/ \E k \in SocketIds : Connection(k)
    \/ \E k \in SocketIds : Disconnect(k)
    \/ \E k \in SocketIds, i \in KnownIds : JoinSession(k, i)
    \/ \E i \in KnownIds : TextInput("sockA", i, TxShort)
    \/ Successes
    \/ \E t \in ConnectionInstants : Tick(t)

SpecConnections == Init /\ [][NextConnections]_vars

\* The bytes the synthesizer returns, its declared types, and the languages
\* of the sessions.
ByteSamples == {0, 77, 255}
PcmBuffers == UNION {[1..n -> ByteSamples] : n \in 0..MaxPcmBytes}
MimeTypes == {MimeL16Pcm, MimeL16, MimeWav, MimeMpeg}
SpeechLanguages == {"en", "ar", "it", "fr"}
ApiReplies ==
    {ApiReply("ok", <<Base64Encode(b)>>, <<m>>) : b \in PcmBuffers, m \in MimeTypes}
    \cup {ApiReply("ok", <<>>, <<MimeWav>>), ApiReply("ok", <<Base64Encode(<<77>>)>>, <<>>),
          ApiReply("error", <<>>, <<>>)}

\* ttsService.generateSpeech is called and settles.  The service keeps
\* nothing between two calls: a behaviour holds one call.
GenerateSpeechCall(language, apiKey, reply) ==
    /\ call = NoCall
    /\ call' = Call("generateSpeech", 0,
                     [language |-> language, apiKey |-> apiKey, reply |-> reply],
                     GenerateSpeech(language, apiKey, reply))
    /\ UNCHANGED <<sessions, nextId, now, serverVars>>

\* convertPCMToWAV is called and returns or throws.
ConvertCall(pcmBase64) ==
    /\ call = NoCall
    /\ call' = Call("convertPCMToWAV", 0, pcmBase64, ConvertPCMToWAV(pcmBase64))
    /\ UNCHANGED <<sessions, nextId, now, serverVars>>

\* The TTSService under the calls of generateAudio.
NextCodec ==
    \/ \E l \in SpeechLanguages, k \in BOOLEAN, r \in ApiReplies : GenerateSpeechCall(l, k, r)
    \/ \E b \in PcmBuffers : ConvertCall(Base64Encode(b))

SpecCodec == Init /\ [][NextCodec]_vars

\* The running server with clients of several languages that speak.
NextAudio ==
    \/ \E l \in RequestedLanguages : StartSession(Undefined, l)
    \/ \E i \in KnownIds, a \in AudioInputs : AudioStream("sockA", i, a)
    \/ \E turn \in turns, o \in SynthesisOutcomes : SynthesizeDone(turn, o)

SpecAudio == Init /\ [][NextAudio]_vars

\* The generator or synthesizer call of the handler of event n settles.
Settles(n) ==
    \E turn \in turns :
        /\ turn.n = n
        /\ \/ \E x \in GeneratedTexts : GenerateReturn(turn, x)
           \/ GenerateFail(turn)
           \/ \E o \in SynthesisOutcomes : SynthesizeDone(turn, o)

\* The languages of the sessions the turns are sent to: English, and an
\* inherited name, on which the keyword lookup throws.
ReplyLanguages == {Undefined, "constructor"}

\* The running server with turns from two sockets, whose generator and
\* synthesizer calls all return or raise in the end.
NextReplies ==
    \/ \E l \in ReplyLanguages : StartSession(Undefined, l)
    \/ \E i \in KnownIds : JoinSession("sockA", i)
    \/ \E k \in SocketIds, i \in KnownIds : TextInput(k, i, TxShort)
    \/ \E i \in KnownIds, a \in AudioInputs : AudioStream("sockB", i, a)
    \/ \E i \in KnownIds : RequestFeedback("sockB", i)
    \/ Completions

SpecReplies ==
    /\ Init
    /\ [][NextReplies]_vars
    /\ \A n \in 1..MaxEvents : WF_vars(Settles(n))

\* The transcripts the recognition hears.
Transcripts == {TxShort}

\* The browser: the user, the recognition, the transport and the server's
\* answers.
NextClient ==
    \/ \E o \in StartOutcomes : HandleStartSession(o)
    \/ HandleNewSession
    \/ HandleSurahSelect
    \/ HandleMicrophoneToggle
    \/ \E x \in Transcripts : OnResult(x)
    \/ HandleRequestFeedback
    \/ OnConnect
    \/ OnDisconnect
    \/ \E turn \in wire.owed, a \in AnswerKinds : ServerAnswers(turn, a)
    \/ Effects
    \/ PlayTimeout

SpecClient == Init /\ [][NextClient]_vars

\* The browser when every render is followed by its effects, a pending
\* timeout fires, socket.io connects again after a loss, and the server
\* answers every turn it has received.
SpecClientLive ==
    /\ Init
    /\ [][NextClient]_vars
    /\ WF_vars(Effects)
    /\ WF_vars(PlayTimeout)
    /\ WF_vars(OnConnect)
    /\ WF_vars(\E turn \in wire.owed, a \in AnswerKinds : ServerAnswers(turn, a))

----------------------------------------------------------------------------
(* Properties *)

IsPrefix(a, b) == Len(a) <= Len(b) /\ SubSeq(b, 1, Len(a)) = a

Both == DOMAIN sessions \cap DOMAIN sessions'

\* The minutes since the last activity of a session.
Idle(i) == now - sessions[i].lastActivity

\* The instant of the latest firing of the interval (0 before the first).
LastSweep == nextSweep - AutoCleanupInterval

\* C1: once the interval has fired, no session of the handlers' registry
\* that had been idle for more than 60 minutes at that firing is still in
\* the registry.
C1_IdleSessionsSwept ==
    \A i \in DOMAIN sessions :
        ~(sessions[i].lastActivity < LastSweep - AutoCleanupMaxAge)

\* C2: a session leaves the registry only by a deleteSession of its id, by
\* a cleanupSession of its socket id, or by a cleanupOldSessions(maxAge)
\* when at least maxAge minutes have passed since its last get or update;
\* as long as it is there getSession returns it.
C2_LiveUntilWindowElapses ==
    [][\A i \in DOMAIN sessions :
          /\ i \notin DOMAIN sessions' =>
                \/ DeleteSession(i)
                \/ CleanupSession(sessions[i].socketId)
                \/ \E m \in SweepAges : CleanupOldSessions(m) /\ ~(Idle(i) < m)
          /\ GetSession(i) => call'.ret = "session" /\ i \in DOMAIN sessions'
      ]_vars

C2_Witness ==
    /\ call.op = "cleanupOldSessions"
    /\ call.id = 60
    /\ \E i \in DOMAIN sessions : Idle(i) = 59

\* C3: cleanupOldSessions(m) removes exactly the sessions whose last
\* activity is more than m minutes old and leaves the others as they are.
C3_RemovesExactlyTheOld ==
    [][\A m \in SweepAges :
          CleanupOldSessions(m) =>
              /\ DOMAIN sessions' \subseteq DOMAIN sessions
              /\ \A i \in DOMAIN sessions :
                    IF Idle(i) > m
                    THEN i \notin DOMAIN sessions'
                    ELSE i \in DOMAIN sessions' /\ sessions'[i] = sessions[i]
      ]_vars

\* A sweep with m = 60 at minute 61 has removed the session last active at
\* minute 0 and kept the one last active at minute 1.
C3_Witness ==
    /\ call = Call("cleanupOldSessions", 60, {}, Undefined)
    /\ now = 61
    /\ DOMAIN sessions = {2}
    /\ nextId = 3
    /\ Idle(2) = 60

C5_HistoryOnlyGrows ==
    [][\A i \in Both :
          IsPrefix(sessions[i].recitationHistory, sessions'[i].recitationHistory)
      ]_vars

\* C6: the id of a session is the key it is stored under, no two sessions
\* have the same id, and id, language and (once set) surah never change.
C6_IdentityImmutable ==
    [][/\ \A i \in DOMAIN sessions' : sessions'[i].id = i
       /\ \A i \in Both :
             /\ sessions'[i].id = sessions[i].id
             /\ sessions'[i].language = sessions[i].language
             /\ sessions[i].surah # Undefined => sessions'[i].surah = sessions[i].surah
      ]_vars

\* C7: the lastActivity of a session never decreases.
C7_LastActivityMonotone ==
    [][\A i \in Both : sessions'[i].lastActivity >= sessions[i].lastActivity]_vars

\* An update that carried lastActivity = 0 has been applied after minute 0.
C7_Witness ==
    /\ call.op = "updateSession"
    /\ call.ret = "true"
    /\ "lastActivity" \in call.arg
    /\ call.id \in DOMAIN sessions
    /\ sessions[call.id].lastActivity = now
    /\ now > 0

\* C8: getSession on a live session returns it and sets its lastActivity to
\* the current time, changing nothing else; on any other id it returns
\* undefined and leaves the registry as it is.  (A step that is a
\* getSession(i) leaves i as the id of the recorded call.)
C8_GetSession ==
    [][LET i == call'.id
       IN (call'.op = "getSession" /\ GetSession(i)) =>
              IF i \in DOMAIN sessions
              THEN /\ call'.ret = "session"
                   /\ DOMAIN sessions' = DOMAIN sessions
                   /\ sessions'[i].lastActivity = now
                   /\ \A f \in DOMAIN sessions[i] \ {"lastActivity"} :
                         sessions'[i][f] = sessions[i][f]
                   /\ \A j \in DOMAIN sessions \ {i} : sessions'[j] = sessions[j]
              ELSE /\ call'.ret = Undefined
                   /\ sessions' = sessions
      ]_vars

\* getSession of a deleted or evicted id has returned undefined; a live
\* session was last active earlier.
C8_Witness ==
    /\ call.op = "getSession"
    /\ call.ret = Undefined
    /\ call.id >= 1
    /\ \E j \in DOMAIN sessions : Idle(j) > 0

\* C9: updateSession on a live session stores the given fields, sets
\* lastActivity to the current time and returns true; on any other id it
\* returns false and leaves the registry as it is.  (A step that is an
\* updateSession(i, u) leaves i as the id of the recorded call.)
C9_UpdateSession ==
    [][LET i == call'.id
       IN \A u \in UpdateInputs :
          (call'.op = "updateSession" /\ UpdateSession(i, u)) =>
              IF i \in DOMAIN sessions
              THEN /\ call'.ret = "true"
                   /\ DOMAIN sessions' = DOMAIN sessions
                   /\ sessions'[i].lastActivity = now
                   /\ \A f \in DOMAIN u \ {"lastActivity"} : sessions'[i][f] = u[f]
                   /\ \A f \in DOMAIN sessions[i] \ (DOMAIN u \cup {"lastActivity"}) :
                         sessions'[i][f] = sessions[i][f]
                   /\ \A j \in DOMAIN sessions \ {i} : sessions'[j] = sessions[j]
              ELSE /\ call'.ret = "false"
                   /\ sessions' = sessions
      ]_vars

\* updateSession of an id that is not in the registry has returned false
\* while another session is.
C9_Witness ==
    /\ call.op = "updateSession"
    /\ call.ret = "false"
    /\ sessions # <<>>

\* C10: a turn whose transcript holds no feedback keyword of the session's
\* language and is shorter than 10 characters or holds "..." prepares a
\* reply of type continuation.
C10_ShortTranscriptContinues ==
    \A turn \in turns :
        (/\ turn.input # <<>>
         /\ ~IsAskingForFeedback(turn.input[1], turn.language)
         /\ NeedsAssistance(turn.input[1], sessions[turn.sessionId]))
        => turn.type = "continuation"

\* The message sent by the step.
Sent == outbox'[Len(outbox')]

\* The transcript of the turn holds a feedback keyword of the language of
\* its session.
HasKeyword(turn) ==
    turn.input # <<>> /\ IsAskingForFeedback(turn.input[1], turn.language)

\* The turn is on the feedback path and has made no assistance check.
OnFeedbackPath(turn) ==
    /\ turn.type = "feedback"
    /\ turn.prompt # <<>> /\ turn.prompt[1].path = "feedback"
    /\ \A k \in DOMAIN turn.steps : turn.steps[k] # "needsAssistance"

\* C11: a turn whose transcript holds, in any case of the letters, a
\* feedback keyword of the language of its session is on the feedback path
\* (feedback prompt, no assistance check made), whatever its length and
\* whether or not it holds "...", and the reply it ends with has type
\* feedback.
C11_FeedbackWinsOverAssistance ==
    [][/\ \A turn \in turns' \ turns : OnFeedbackPath(turn) \/ ~HasKeyword(turn)
       /\ \A turn \in turns \ turns' :
             (turn.pc = "synthesize" /\ Sent.type # "feedback" /\ HasKeyword(turn)) =>
                 \A o \in SynthesisOutcomes : ~SynthesizeDone(turn, o)
      ]_vars

\* A reply of type feedback has been sent to a session whose only
\* transcript holds a keyword and "...".
C11_Witness ==
    \E k \in DOMAIN outbox :
        /\ outbox[k].event = "ai-response"
        /\ outbox[k].type = "feedback"
        /\ outbox[k].sessionId \in DOMAIN sessions
        /\ LET session == sessions[outbox[k].sessionId]
           IN /\ session.recitationHistory = <<TxMistake>>
              /\ NeedsAssistance(TxMistake, session)

\* The table the lookup is to use for a language: its own when it has one,
\* the English one otherwise.
TableOf(language) ==
    CASE language = "ar" -> FeedbackKeywordsAr
      [] language = "it" -> FeedbackKeywordsIt
      [] OTHER -> FeedbackKeywordsEn

\* C12: a typed turn is put on the feedback path exactly when its
\* transcript holds a keyword of the table of its session's language, the
\* English table standing in for every language without one; otherwise it
\* is put on the normal path.
C12_TableOfTheSessionLanguage ==
    [][\A i \in DOMAIN sessions, x \in LanguageTexts :
          TextInput("sockA", i, x) =>
              LET asks == \E keyword \in TableOf(sessions[i].language) :
                              Includes(ToLowerCase(x), ToLowerCase(keyword))
              IN \E turn \in turns' \ turns :
                    /\ turn.sessionId = i
                    /\ turn.type = IF asks THEN "feedback" ELSE "response"
      ]_vars

\* The calls of a typed turn on the feedback path, in order.
FeedbackSteps == <<"push", "isAskingForFeedback", "generateContent", "generateAudio">>

\* C13: on a session started with language "ar", a text-input with the
\* Arabic keyword appends the transcript to the history and leaves the
\* handler waiting for the generator with the feedback prompt, having
\* pushed, then classified, then asked the generator once; the handler
\* never asks the generator again, and the reply it sends is an
\* ai-response of type feedback.
C13_ArabicFeedbackEndToEnd ==
    [][/\ \A i \in DOMAIN sessions :
             (sessions[i].language = "ar" /\ TextInput("sockA", i, TxKhata)) =>
                 /\ sessions'[i].recitationHistory =
                        Append(sessions[i].recitationHistory, TxKhata)
                 /\ \E turn \in turns' \ turns :
                       /\ turn.sessionId = i
                       /\ turn.pc = "generate"
                       /\ turn.type = "feedback"
                       /\ turn.prompt[1].path = "feedback"
                       /\ turn.steps = SubSeq(FeedbackSteps, 1, 3)
       /\ \A turn \in turns' :
             (turn.language = "ar" /\ turn.input = <<TxKhata>>) =>
                 turn.steps \in {SubSeq(FeedbackSteps, 1, 3), FeedbackSteps}
       /\ \A turn \in turns, o \in SynthesisOutcomes :
             (turn.language = "ar" /\ turn.input = <<TxKhata>> /\ SynthesizeDone(turn, o)) =>
                 /\ Sent.event = "ai-response"
                 /\ Sent.type = "feedback"
                 /\ Sent.n = turn.n
      ]_vars

\* The reply of type feedback has been sent to the Arabic session, whose
\* history is the transcript.
C13_Witness ==
    \E k \in DOMAIN outbox :
        /\ outbox[k].event = "ai-response"
        /\ outbox[k].type = "feedback"
        /\ outbox[k].text = "reply"
        /\ outbox[k].sessionId \in DOMAIN sessions
        /\ sessions[outbox[k].sessionId].language = "ar"
        /\ sessions[outbox[k].sessionId].recitationHistory = <<TxKhata>>
        /\ turns = {}

\* A message that ends a text-input turn: its reply (the only other
\* ai-response is the clarification of an audio-stream) or the message of
\* its catch block.
EndsTextInput(message) ==
    \/ message.event = "ai-response" /\ message.type # "clarification"
    \/ message.event = "error" /\ message.text = FailureText("text-input")

\* The transcripts submitted for a session so far: the text-input turns in
\* flight and those that have ended.  (No audio-stream turn ever has a
\* transcript.)
Submitted(i) ==
    Cardinality({turn \in turns : turn.sessionId = i /\ turn.handler = "text-input"})
    + Cardinality({k \in DOMAIN outbox :
                      outbox[k].sessionId = i /\ EndsTextInput(outbox[k])})

\* C14: a turn pushes its transcript and sets lastRecitation before it
\* classifies; the history of a session is as long as the number of
\* transcripts submitted for it, and when it is not empty its last element
\* is lastRecitation.
C14_HistoryCountsTurns ==
    /\ \A turn \in turns :
          turn.input # <<>> =>
              /\ Len(turn.steps) >= 2
              /\ turn.steps[1] = "push"
              /\ turn.steps[2] = "isAskingForFeedback"
    /\ \A i \in DOMAIN sessions :
          LET session == sessions[i]
          IN /\ Len(session.recitationHistory) = Submitted(i)
             /\ session.recitationHistory # <<>> =>
                    session.lastRecitation =
                        session.recitationHistory[Len(session.recitationHistory)]

\* Two different transcripts have been submitted for a session and one of
\* the two turns has been answered.
C14_Witness ==
    \E i \in DOMAIN sessions :
        /\ Len(sessions[i].recitationHistory) = 2
        /\ sessions[i].recitationHistory[1] # sessions[i].recitationHistory[2]
        /\ \E k \in DOMAIN outbox : outbox[k].sessionId = i /\ outbox[k].type = "response"

\* The calls of a turn on a path with a generation, in order.
StepsOf(turn) ==
    IF turn.handler = "request-feedback"
    THEN <<"generateContent", "generateAudio">>
    ELSE <<"push", "isAskingForFeedback", "generateContent", "generateAudio">>

\* C15: a turn that asks the generator makes its calls in the order push,
\* classify, generateContent, generateAudio; while it waits for the
\* generator nothing has been handed to the synthesizer; the text handed
\* to the synthesizer is the text the generator returned; and the text of
\* the reply is that text.
C15_GenerateThenSynthesize ==
    [][/\ \A turn \in turns' :
             turn.prompt # <<>> =>
                 /\ turn.pc = "generate" =>
                        /\ turn.steps = SubSeq(StepsOf(turn), 1, Len(StepsOf(turn)) - 1)
                        /\ turn.spoken = <<>>
                 /\ turn.pc = "synthesize" =>
                        /\ turn.steps = StepsOf(turn)
                        /\ turn.spoken = <<turn.text>>
       /\ \A turn \in turns, x \in GeneratedTexts :
             GenerateReturn(turn, x) =>
                 \E next \in turns' \ turns :
                     /\ next.n = turn.n
                     /\ next.pc = "synthesize"
                     /\ next.spoken = <<x>>
       /\ \A turn \in turns, o \in SynthesisOutcomes :
             (turn.prompt # <<>> /\ SynthesizeDone(turn, o)) =>
                 /\ Sent.n = turn.n
                 /\ Sent.event # "error"
                 /\ <<Sent.text>> = turn.spoken
      ]_vars

\* A reply carries the text the generator returned while another turn
\* still waits for the generator.
C15_Witness ==
    /\ \E k \in DOMAIN outbox :
          /\ outbox[k].event = "ai-response"
          /\ outbox[k].type = "response"
          /\ outbox[k].text \in GeneratedTexts
    /\ \E turn \in turns : turn.pc = "generate" /\ turn.steps[1] = "push"

\* How often a call occurs among the calls of a turn.
Times(turn, step) == Cardinality({k \in DOMAIN turn.steps : turn.steps[k] = step})

\* C16: when the generator fails, the turn has asked it once and has
\* handed nothing to the synthesizer; the turn ends there, with the one
\* message of the handler's catch block; and no turn goes on, and no other
\* message is sent, for an event that was answered with an error.
C16_GeneratorFailureEndsTurn ==
    [][/\ \A turn \in turns :
             GenerateFail(turn) =>
                 /\ Times(turn, "generateContent") = 1
                 /\ Times(turn, "generateAudio") = 0
                 /\ turn.spoken = <<>>
                 /\ \A next \in turns' : next.n # turn.n
                 /\ outbox' = Append(outbox, Sent)
                 /\ Sent = ErrorMessage(turn.n, turn.socket, FailureText(turn.handler),
                                        turn.sessionId)
       /\ \A k \in DOMAIN outbox' :
             outbox'[k].event = "error" =>
                 /\ \A j \in DOMAIN outbox' : j # k => outbox'[j].n # outbox'[k].n
                 /\ \A turn \in turns' : turn.n # outbox'[k].n
      ]_vars

\* The generator has failed in a text-input turn and in a request-feedback
\* turn, and nothing is in flight.
C16_Witness ==
    /\ \E k \in DOMAIN outbox : outbox[k].text = FailureText("text-input")
    /\ \E k \in DOMAIN outbox : outbox[k].text = FailureText("request-feedback")
    /\ turns = {}

\* The text-input turns of a session in which the generator has failed.
Failed(i) ==
    Cardinality({k \in DOMAIN outbox :
                    /\ outbox[k].sessionId = i
                    /\ outbox[k].event = "error"
                    /\ outbox[k].text = FailureText("text-input")})

\* C17: a turn in which the generator failed leaves the history and
\* lastRecitation as they were before it: the history holds the
\* transcripts of the other turns only, and a session all of whose turns
\* have failed has the empty history and lastRecitation it was created
\* with.
C17_FailedTurnLeavesSessionAsItWas ==
    \A i \in DOMAIN sessions :
        /\ Len(sessions[i].recitationHistory) = Submitted(i) - Failed(i)
        /\ Submitted(i) = Failed(i) =>
               /\ sessions[i].recitationHistory = <<>>
               /\ sessions[i].lastRecitation = <<>>

\* C18: when generateSpeech returns null or throws in a turn that has its
\* text, the turn ends with its reply, of the type of its path, with that
\* text and without audio, and with no error message.
C18_SynthesisFailureDegrades ==
    [][\A turn \in turns, o \in SynthesisOutcomes \ {"audio"} :
          (turn.handler # "session-start" /\ SynthesizeDone(turn, o)) =>
              /\ outbox' = Append(outbox, Sent)
              /\ Sent.n = turn.n
              /\ Sent.to = turn.socket
              /\ Sent.event = ReplyEvent(turn.handler)
              /\ Sent.type = turn.type
              /\ Sent.text = turn.text
              /\ Sent.text # Undefined
              /\ Sent.audio = Undefined
              /\ \A next \in turns' : next.n # turn.n
      ]_vars

\* Replies without audio have been sent on the clarification path and on
\* the normal path.
C18_Witness ==
    /\ \E k \in DOMAIN outbox :
          /\ outbox[k].type = "clarification"
          /\ outbox[k].text = ClarificationMessage("en")
          /\ outbox[k].audio = Undefined
    /\ \E k \in DOMAIN outbox :
          /\ outbox[k].type = "response"
          /\ outbox[k].text \in GeneratedTexts
          /\ outbox[k].audio = Undefined

\* The greeting a session of a language is to get: the string of the
\* language when it has one, the English string otherwise.
GreetingOf(language) ==
    CASE language = "ar" -> "greeting_ar"
      [] language = "it" -> "greeting_it"
      [] OTHER -> "greeting_en"

\* C19: POST /api/session/start creates the session, with an empty
\* history, and hands the greeting of its language to the synthesizer,
\* calling neither the classifier nor the generator; when the synthesizer
\* is done the response carries the session id and that greeting, with the
\* audio or, when the synthesis failed, without, and the history is still
\* empty.
C19_GreetingOnStart ==
    [][/\ \A l \in RequestedLanguages :
             StartSession(Undefined, l) =>
                 LET language == IF l = Undefined THEN "en" ELSE l
                 IN /\ nextId \in DOMAIN sessions' \ DOMAIN sessions
                    /\ sessions'[nextId].language = language
                    /\ sessions'[nextId].recitationHistory = <<>>
                    /\ \E turn \in turns' \ turns :
                          /\ turn.sessionId = nextId
                          /\ turn.handler = "session-start"
                          /\ turn.pc = "synthesize"
                          /\ turn.steps = <<"generateAudio">>
                          /\ turn.spoken = <<GreetingOf(language)>>
                          /\ turn.text = GreetingOf(language)
       /\ \A turn \in turns, o \in SynthesisOutcomes :
             (turn.handler = "session-start" /\ SynthesizeDone(turn, o)) =>
                 /\ Sent.event = ReplyEvent("session-start")
                 /\ Sent.sessionId = turn.sessionId
                 /\ Sent.text = turn.text
                 /\ Sent.audio = IF o = "audio" THEN "data:audio" ELSE Undefined
      ]_vars

\* The languages the service has greetings, keywords and messages for.
SupportedLanguages == {"en", "ar", "it"}

\* C20: the language of every session in the registry of the server is a
\* supported one.
C20_LanguageSupported ==
    \A i \in DOMAIN sessions : sessions[i].language \in SupportedLanguages

\* The step is a text-input, an audio-stream or a request-feedback received
\* on the socket with the session id.
TurnRequest(socket, sessionId) ==
    \/ TextInput(socket, sessionId, TxShort)
    \/ \E a \in AudioInputs : AudioStream(socket, sessionId, a)
    \/ RequestFeedback(socket, sessionId)

\* C21: a text-input, audio-stream or request-feedback with an id that is
\* not in the registry (never handed out, deleted or swept) sends the error
\* 'Session not found' to its socket in the same step, starts no call of
\* the generator or the synthesizer, creates no session and leaves the
\* registry as it is.
C21_AbsentSessionRejected ==
    [][\A i \in KnownIds \ DOMAIN sessions :
          (call'.id = i /\ TurnRequest("sockA", i)) =>
              /\ Len(outbox') = Len(outbox) + 1
              /\ Sent = ErrorMessage(events + 1, "sockA", "Session not found", i)
              /\ turns' = turns
              /\ sessions' = sessions
              /\ nextId' = nextId
      ]_vars

\* Session 1 was handed out, has been removed while the clock stood at
\* minute 61, and an event with its id has been answered 'Session not found'.
C21_Witness ==
    /\ nextId > 1 /\ 1 \notin DOMAIN sessions
    /\ now = 61
    /\ call = Call("getSession", 1, {}, Undefined)
    /\ outbox # <<>>
    /\ outbox[Len(outbox)] = ErrorMessage(events, "sockA", "Session not found", 1)

\* C22: a join-session with the id of a live session stores the socket id
\* of the joining socket in the session, sets its lastActivity to the
\* current time, leaves its other fields (history and last transcript
\* among them) and the other sessions as they are and confirms to the
\* socket; with any other id it answers 'Session not found' and leaves the
\* registry as it is.  Only a join changes the socket id of a session, so
\* it is always that of the latest join.
C22_JoinSession ==
    [][/\ \A k \in SocketIds, i \in KnownIds :
             (call'.id = i /\ JoinSession(k, i)) =>
                 IF i \in DOMAIN sessions
                 THEN /\ sessions'[i].socketId = k
                      /\ sessions'[i].lastActivity = now
                      /\ \A f \in DOMAIN sessions[i] \ {"socketId", "lastActivity"} :
                            sessions'[i][f] = sessions[i][f]
                      /\ \A j \in DOMAIN sessions \ {i} : sessions'[j] = sessions[j]
                      /\ DOMAIN sessions' = DOMAIN sessions
                      /\ Sent = Message(events + 1, k, "session-joined", Undefined,
                                        Undefined, Undefined, <<>>, i)
                 ELSE /\ sessions' = sessions
                      /\ Sent = ErrorMessage(events + 1, k, "Session not found", i)
       /\ \A i \in Both :
             sessions'[i].socketId # sessions[i].socketId =>
                 JoinSession(sessions'[i].socketId, i)
      ]_vars

\* Session 1 was joined from sockA and then, at minute 1, from sockB: it
\* carries sockB and minute 1.
C22_Witness ==
    /\ 1 \in DOMAIN sessions
    /\ sessions[1].socketId = "sockB"
    /\ sessions[1].lastActivity = 1
    /\ now = 1
    /\ Len(outbox) >= 2
    /\ outbox[Len(outbox)] = Message(events, "sockB", "session-joined", Undefined,
                                     Undefined, Undefined, <<>>, 1)
    /\ \E n \in 1..(Len(outbox) - 1) :
          /\ outbox[n].event = "session-joined"
          /\ outbox[n].to = "sockA"
          /\ outbox[n].sessionId = 1

\* Another handler of the session is suspended at its generator or
\* synthesizer call.
InFlight(i) == \E turn \in turns : turn.sessionId = i

\* C23: a text-input that arrives while another turn of the same session is
\* suspended appends its transcript to the history as that turn left it and
\* becomes lastRecitation; a suspended turn that goes on or ends changes no
\* session; so the transcripts of two turns in flight are both in the
\* history, the one that started first before the other.
C23_OverlappingTurnsKeepBoth ==
    [][/\ \A i \in DOMAIN sessions :
             (InFlight(i) /\ call'.id = i /\ events' = events + 1) =>
                 \A k \in SocketIds, x \in Texts :
                     TextInput(k, i, x) =>
                         /\ sessions'[i].recitationHistory =
                                Append(sessions[i].recitationHistory, x)
                         /\ sessions'[i].lastRecitation = x
                         /\ turns \subseteq turns'
       /\ events' = events => sessions' = sessions
       /\ \A first \in turns', second \in turns' :
             (/\ first.sessionId = second.sessionId
              /\ first.n < second.n
              /\ first.input # <<>> /\ second.input # <<>>) =>
                 LET history == sessions'[first.sessionId].recitationHistory
                 IN \E p \in DOMAIN history, q \in DOMAIN history :
                        /\ p < q
                        /\ history[p] = first.input[1]
                        /\ history[q] = second.input[1]
      ]_vars

\* Two text-input turns of session 1 are in flight, the first at its
\* synthesizer call and the second at its generator call, and the history
\* holds the two transcripts in the order of their events.
C23_Witness ==
    /\ 1 \in DOMAIN sessions
    /\ sessions[1].recitationHistory = <<TxWrong, TxShort>>
    /\ sessions[1].lastRecitation = TxShort
    /\ \E first \in turns, second \in turns :
          /\ first.sessionId = 1 /\ second.sessionId = 1
          /\ first.n < second.n
          /\ first.input = <<TxWrong>> /\ first.pc = "synthesize"
          /\ second.input = <<TxShort>> /\ second.pc = "generate"

\* The session the step is addressed to: that of the event received, of the
\* SessionManager call made, or of the suspended handler that goes on.
Addressed ==
    IF events' # events \/ call' # call
    THEN {call'.id}
    ELSE {turn.sessionId : turn \in turns \ turns'}

\* C24: a step addressed to one session (an event with its id, an update
\* or a delete of it, a suspended turn of it going on) leaves every other
\* session in the registry with every field as it was, whatever turns of
\* other sessions are in flight, and takes no turn of another session out
\* of flight.
C24_OtherSessionsUntouched ==
    [][/\ \A j \in DOMAIN sessions \ Addressed :
             j \in DOMAIN sessions' /\ sessions'[j] = sessions[j]
       /\ Cardinality(Addressed) = 1
       /\ \A turn \in turns \ turns' : turn.sessionId \in Addressed
      ]_vars

\* Session 1 has been deleted while a text turn of session 2 was in
\* flight; session 2 holds its transcript and the turn is still in flight.
C24_Witness ==
    /\ call = Call("deleteSession", 1, {}, "true")
    /\ DOMAIN sessions = {2}
    /\ sessions[2].recitationHistory = <<TxShort>>
    /\ \E turn \in turns : turn.sessionId = 2 /\ turn.input = <<TxShort>>

\* The data URL is that of a WAV file made of the 44-byte header and the
\* bytes given.
IsWavOf(url, data) ==
    /\ url.mimeType = MimeWav
    /\ Base64Decode(url.base64) = WavHeader(Len(Base64Decode(data))) \o Base64Decode(data)

\* C25: when generateSpeech has data and a declared type, the type alone
\* decides: bytes declared audio/L16 (raw linear PCM) come back as a WAV
\* data URL made by the encoder, bytes of any other declared type come back
\* unchanged under their declared type; the language has no part in it.
C25_RoutedByDeclaredType ==
    call.op = "generateSpeech" =>
        LET reply == call.arg.reply
        IN /\ (call.arg.apiKey /\ reply.status = "ok" /\ reply.data # <<>>
               /\ reply.data[1] # <<>> /\ reply.mimeType # <<>>) =>
                  /\ Len(call.ret) = 1
                  /\ IF reply.mimeType[1] \in {MimeL16Pcm, MimeL16}
                     THEN IsWavOf(call.ret[1], reply.data[1])
                     ELSE call.ret[1] = DataUrl(reply.mimeType[1], reply.data[1])
           /\ \A l \in SpeechLanguages :
                  GenerateSpeech(l, call.arg.apiKey, reply) = call.ret

\* For an Arabic session the synthesizer has returned three bytes declared
\* audio/L16;codec=pcm;rate=24000, and the data URL is a WAV file of 47
\* bytes that ends with them.
C25_Witness ==
    /\ call.op = "generateSpeech"
    /\ call.arg.language = "ar"
    /\ call.arg.reply = ApiReply("ok", <<Base64Encode(<<0, 77, 255>>)>>, <<MimeL16Pcm>>)
    /\ Len(call.ret) = 1
    /\ call.ret[1].mimeType = MimeWav
    /\ Len(Base64Decode(call.ret[1].base64)) = 47
    /\ SubSeq(Base64Decode(call.ret[1].base64), 45, 47) = <<0, 77, 255>>

\* The little-endian fields of a WAV file, read at their byte offsets.
ReadUInt32LE(buffer, offset) ==
    buffer[offset + 1] + 256 * buffer[offset + 2] + 65536 * buffer[offset + 3]
    + 16777216 * buffer[offset + 4]
ReadUInt16LE(buffer, offset) == buffer[offset + 1] + 256 * buffer[offset + 2]

\* The bytes given to the encoder and the bytes it gave back.
PcmGiven == Base64Decode(call.arg)
WavGiven == Base64Decode(call.ret.value)

\* C26: for every PCM buffer B the encoder returns 44 + len(B) bytes: the
\* header, which starts with 'RIFF' and whose last chunk is named 'data',
\* then B byte for byte; the size field of the data chunk (offset 40) is
\* len(B) and the size field of the file (offset 4) is len(B) + 36.
C26_HeaderThenPayload ==
    call.op = "convertPCMToWAV" =>
        /\ call.ret.ok
        /\ Len(WavGiven) = 44 + Len(PcmGiven)
        /\ SubSeq(WavGiven, 45, Len(WavGiven)) = PcmGiven
        /\ SubSeq(WavGiven, 1, 4) = Riff
        /\ SubSeq(WavGiven, 37, 40) = Data
        /\ ReadUInt32LE(WavGiven, 40) = Len(PcmGiven)
        /\ ReadUInt32LE(WavGiven, 4) = Len(PcmGiven) + 36

\* The encoder has been given the three bytes 255, 0, 77 (an odd length).
C26_Witness ==
    /\ call.op = "convertPCMToWAV"
    /\ PcmGiven = <<255, 0, 77>>
    /\ call.ret.ok
    /\ Len(WavGiven) = 47

\* What a reader of the file finds in the fmt chunk.
ParsedFormat(buffer) ==
    [chunkSize |-> ReadUInt32LE(buffer, 16),
     audioFormat |-> ReadUInt16LE(buffer, 20),
     numChannels |-> ReadUInt16LE(buffer, 22),
     sampleRate |-> ReadUInt32LE(buffer, 24),
     byteRate |-> ReadUInt32LE(buffer, 28),
     blockAlign |-> ReadUInt16LE(buffer, 32),
     bitsPerSample |-> ReadUInt16LE(buffer, 34)]

PayloadLengths == {0, 1, MaxPcmBytes, 65535, 65536, 16777215, 16777216, LongestPayload}

ClarificationOf(language) ==
    CASE language = "ar" -> "clarification_ar"
      [] language = "it" -> "clarification_it"
      [] OTHER -> "clarification_en"

\* C29: an audio-stream whose transcription is empty leaves the history
\* and lastRecitation of its session as they are and hands the
\* clarification of the session's language (the English one when the
\* language has none) to the synthesizer without calling the generator;
\* its reply is an ai-response of type clarification with that text.
C29_ClarificationOnUnclearAudio ==
    [][/\ \A i \in DOMAIN sessions, a \in AudioInputs :
             (call'.id = i /\ TranscribeAudio(a) = <<>> /\ AudioStream("sockA", i, a)) =>
                 /\ sessions'[i].recitationHistory = sessions[i].recitationHistory
                 /\ sessions'[i].lastRecitation = sessions[i].lastRecitation
                 /\ \E turn \in turns' \ turns :
                       /\ turn.sessionId = i
                       /\ turn.pc = "synthesize"
                       /\ turn.type = "clarification"
                       /\ turn.steps = <<"transcribeAudio", "generateAudio">>
                       /\ turn.spoken = <<ClarificationOf(sessions[i].language)>>
       /\ \A turn \in turns \ turns' :
             turn.handler = "audio-stream" =>
                 \A o \in SynthesisOutcomes :
                     SynthesizeDone(turn, o) =>
                         /\ Sent.event = "ai-response"
                         /\ Sent.type = "clarification"
                         /\ Sent.text = ClarificationOf(turn.language)
                         /\ Sent.sessionId = turn.sessionId
      ]_vars

\* The step is a connection or a disconnect of a socket.
ComesOrGoes == \E k \in SocketIds : Connection(k) \/ Disconnect(k)

\* C30: a connection or a disconnect leaves the registry as it is, no step
\* of the server takes a session out of the registry or shortens its
\* history, and a join-session with the id of a session in the registry is
\* confirmed, whatever connections and disconnects came before.
C30_DisconnectKeepsSessions ==
    [][/\ (events' = events + 1 /\ call' = call /\ ComesOrGoes) => sessions' = sessions
       /\ \A i \in DOMAIN sessions :
             /\ i \in DOMAIN sessions'
             /\ IsPrefix(sessions[i].recitationHistory, sessions'[i].recitationHistory)
             /\ \A k \in SocketIds :
                   (call'.id = i /\ JoinSession(k, i)) =>
                       /\ call'.ret = "session"
                       /\ Sent.event = "session-joined"
                       /\ Sent.to = k
      ]_vars

\* Session 1 was joined from sockA, then a socket came or went (the third
\* event, which has neither a reply nor a handler in flight): the session
\* is in the registry and carries sockA.
C30_Witness ==
    /\ events = 3
    /\ 1 \in DOMAIN sessions
    /\ sessions[1].socketId = "sockA"
    /\ \E k \in DOMAIN outbox : outbox[k].n = 2 /\ outbox[k].event = "session-joined"
    /\ \A k \in DOMAIN outbox : outbox[k].n # 3
    /\ \A turn \in turns : turn.n # 3

\* C31: a request-feedback on a session of the registry leaves the history
\* and lastRecitation of the session as they were and suspends one handler
\* at the generator, with the feedback prompt made of the session's
\* lastRecitation and its whole history; a request-feedback handler asks
\* the generator once; and the reply it sends is a feedback-response of
\* type feedback to its socket.
C31_RequestFeedback ==
    [][/\ \A i \in DOMAIN sessions, k \in SocketIds :
             (call'.id = i /\ RequestFeedback(k, i)) =>
                 /\ sessions'[i].recitationHistory = sessions[i].recitationHistory
                 /\ sessions'[i].lastRecitation = sessions[i].lastRecitation
                 /\ \E turn \in turns' \ turns :
                       /\ turns' = turns \cup {turn}
                       /\ turn.handler = "request-feedback"
                       /\ turn.sessionId = i /\ turn.socket = k
                       /\ turn.pc = "generate" /\ turn.type = "feedback"
                       /\ turn.steps = <<"generateContent">>
                       /\ Len(turn.prompt) = 1
                       /\ turn.prompt[1].path = "feedback"
                       /\ turn.prompt[1].lastRecitation = <<sessions[i].lastRecitation>>
                       /\ turn.prompt[1].history = sessions[i].recitationHistory
       /\ \A turn \in turns' :
             turn.handler = "request-feedback" => Times(turn, "generateContent") = 1
       /\ \A turn \in turns \ turns' :
             (turn.handler = "request-feedback" /\ turn.pc = "synthesize") =>
                 \A o \in SynthesisOutcomes :
                     SynthesizeDone(turn, o) =>
                         /\ sessions' = sessions
                         /\ Sent.event = "feedback-response"
                         /\ Sent.type = "feedback"
                         /\ Sent.to = turn.socket
                         /\ Sent.n = turn.n
      ]_vars

\* A feedback-response of type feedback has been sent for session 1, whose
\* history is still the one transcript typed before the request.
C31_Witness ==
    /\ 1 \in DOMAIN sessions
    /\ Len(sessions[1].recitationHistory) = 1
    /\ sessions[1].lastRecitation = sessions[1].recitationHistory[1]
    /\ \E k \in DOMAIN outbox :
          /\ outbox[k].event = "feedback-response"
          /\ outbox[k].type = "feedback"
          /\ outbox[k].sessionId = 1
          /\ outbox[k].text = "reply"

\* The transcript a prompt quotes as the one to answer.
TranscriptOf(prompt) ==
    IF prompt.path = "normal" THEN prompt.recitation ELSE prompt.lastRecitation

\* C32: the prompt of a turn that was given a transcript quotes that
\* transcript, and the history it quotes ends with it, whatever other turns
\* of the session are suspended when the turn starts; the prompt is that of
\* the session as the turn's own append left it; and the prompt of a
\* suspended turn stays as it is while later turns of the session start,
\* go on and end.
C32_PromptOfOwnTranscript ==
    [][/\ \A turn \in turns' \ turns :
             (turn.input # <<>> /\ turn.prompt # <<>>) =>
                 /\ TranscriptOf(turn.prompt[1]) = turn.input
                 /\ turn.prompt[1].path \in {"normal", "feedback"} =>
                        /\ turn.prompt[1].history # <<>>
                        /\ turn.prompt[1].history[Len(turn.prompt[1].history)] = turn.input[1]
                 /\ events' = events + 1 =>
                        /\ sessions'[turn.sessionId].lastRecitation = turn.input[1]
                        /\ turn.prompt[1].path = "feedback" =>
                               turn.prompt[1].history =
                                   sessions'[turn.sessionId].recitationHistory
       /\ \A turn \in turns, next \in turns' :
             next.n = turn.n => next.prompt = turn.prompt
      ]_vars

\* A feedback turn of session 1 waits for the generator with a prompt that
\* quotes its own transcript, while a turn that started later has made
\* another transcript the lastRecitation of the session.
C32_Witness ==
    /\ 1 \in DOMAIN sessions
    /\ \E first \in turns, second \in turns :
          /\ first.sessionId = 1 /\ second.sessionId = 1
          /\ first.n < second.n
          /\ first.pc = "generate"
          /\ first.prompt[1].path = "feedback"
          /\ first.input = <<TxWrong>>
          /\ first.prompt[1].lastRecitation = <<TxWrong>>
          /\ second.input = <<TxShort>>
          /\ sessions[1].lastRecitation = TxShort

\* The messages sent for event n, and the handlers of it in flight.
Answers(n) == Cardinality({k \in DOMAIN outbox : outbox[k].n = n})
Pending(n) == Cardinality({turn \in turns : turn.n = n})

\* The step is a text-input, audio-stream or request-feedback of socket k.
TurnEvent(k) ==
    \E i \in KnownIds :
        \/ TextInput(k, i, TxShort)
        \/ \E a \in AudioInputs : AudioStream(k, i, a)
        \/ RequestFeedback(k, i)

\* The step has sent exactly the message m.
SentOnly(m) == outbox' = Append(outbox, m)

\* C33: a text-input, audio-stream or request-feedback either is answered
\* at once with one message to its socket or leaves one handler of that
\* socket in flight; a handler in flight that ends sends one message, a
\* reply or an error, to its own socket, whatever socket the session has
\* recorded; no event ever has two messages, or a message and a handler in
\* flight; and, the generator and synthesizer calls settling, every event
\* with a handler in flight gets its message.
C33_OneMessageToTheSender ==
    /\ [][/\ \A k \in SocketIds :
                (events' = events + 1 /\ call'.op = "getSession" /\ TurnEvent(k)) =>
                    \/ /\ turns' = turns
                       /\ SentOnly(Sent)
                       /\ Sent.n = events' /\ Sent.to = k
                       /\ Sent.event \in {"ai-response", "feedback-response", "error"}
                    \/ /\ outbox' = outbox
                       /\ \E turn \in turns' \ turns :
                             /\ turns' = turns \cup {turn}
                             /\ turn.n = events' /\ turn.socket = k
           /\ \A turn \in turns \ turns' :
                (turn.handler # "session-start" /\ events' = events) =>
                    \/ /\ outbox' = outbox
                       /\ \E next \in turns' \ turns :
                             /\ next.n = turn.n /\ next.socket = turn.socket
                             /\ turns' = (turns \ {turn}) \cup {next}
                    \/ /\ turns' = turns \ {turn}
                       /\ SentOnly(Sent)
                       /\ Sent.n = turn.n /\ Sent.to = turn.socket
                       /\ Sent.event \in {ReplyEvent(turn.handler), "error"}
          ]_vars
    /\ [](\A n \in 1..events : Answers(n) + Pending(n) = 1)
    /\ \A n \in 1..MaxEvents : (Pending(n) = 1) ~> (Answers(n) = 1 /\ Pending(n) = 0)

\* Session 1 has recorded sockA, and the reply to a text-input that sockB
\* sent for it has gone to sockB.
C33_Witness ==
    /\ 1 \in DOMAIN sessions
    /\ sessions[1].socketId = "sockA"
    /\ \E k \in DOMAIN outbox :
          /\ outbox[k].event = "ai-response"
          /\ outbox[k].sessionId = 1
          /\ outbox[k].to = "sockB"
          /\ \E j \in 1..(k - 1) :
                outbox[j].event = "session-joined" /\ outbox[j].sessionId = 1

\* C34: the play timeout never hands a greeting to playMessageAudio, and
\* hands no message to it twice.
C34_GreetingSilentOthersOnce ==
    /\ \A k \in DOMAIN played : store.messages[played[k]].prefix # "greeting"
    /\ \A j \in DOMAIN played, k \in DOMAIN played : j # k => played[j] # played[k]

\* The user messages in the chat, and the text-input events that have
\* reached the server.
UserMessages == {k \in DOMAIN store.messages : store.messages[k].type = "user"}
TextInputsEmitted == {k \in DOMAIN wire.emitted : wire.emitted[k].event = "text-input"}

\* C35: the chat holds one user message, and the server has received one
\* text-input, for each final transcript the recognition has delivered.
C35_OneMessageOneEmitPerTranscript ==
    /\ Cardinality(UserMessages) = wire.heard
    /\ Cardinality(TextInputsEmitted) = wire.heard

\* C36: whenever isProcessing is true it becomes false again.
C36_ProcessingEnds == store.isProcessing ~> ~store.isProcessing

====
